---- MODULE Spec2Model ----
(***************************************************************************)
(* Model of LatexPdfViewerContribution (latexPdfViewer.contribution.ts):   *)
(* the three-pane layout engine of Folio.  The editor groups ("panes") of  *)
(* the workbench are a sequence of records in the host's enumeration       *)
(* order; every host operation the contribution calls is an operator on    *)
(* that sequence, and the listeners the contribution registers run inside  *)
(* the host operation that raises their event, as the host's synchronous   *)
(* emitters do.  Every await of the contribution is a program position at  *)
(* which other events may run.                                             *)
(***************************************************************************)
EXTENDS Integers, Sequences, FiniteSets, TLC

VARIABLES
    groups,            \* editorGroupsService.groups: <<[id, locked, editors]>>
    listing,           \* children of the workspace folder, in listing order
    wbEmpty,           \* getWorkbenchState() === WorkbenchState.EMPTY
    pdfOpened,         \* this.pdfOpened
    terminalOpened,    \* this.terminalOpened
    enforcementSetUp,  \* this.enforcementSetUp
    styleInjected,     \* the folio-global-css style element exists
    pdfGuard,          \* id of the group the PDF guard closed over, or None
    termGuard,         \* id of the group the terminal guard closed over
    editorGuard,       \* id of the group the single-editor guard closed over
    watching,          \* the onDidFilesChange listener is registered
    pc,                \* position of run()
    runTarget,         \* the group an awaited call of run() was issued for
    pendingFinds,      \* findPdf() promises of the file listener in flight
    pendingOpens,      \* openEditor calls of openPdfInLockedGroup in flight
    termCalls,         \* free-standing ensureTerminal() calls in flight
    ensureCalls,       \* history: ensureTerminal() invocations
    openCalls,         \* history: openEditor calls made for the artifact
    openFails,         \* history: how many of them failed
    termCreates,       \* history: createTerminal calls made
    termFails,         \* history: how many of them failed
    lastEvent,         \* history: the event the last step handled
    userBudget,        \* how many more events of the user the run explores
    outputPane,        \* history: the group the artifact was found or opened in
    terminalPane,      \* history: the group the terminal was found or created in
    locksAtOpen,       \* history: per pending openPdfInLockedGroup, the panes and the locked panes at its start
    dashboardActive,   \* FolioRunnerContribution.dashboardActive
    hiddenParts,       \* the workbench parts hidden with layoutService.setPartHidden
    pendingShows,      \* showDashboard calls awaiting openEditor
    reopenTimers,      \* pending 50 ms timers of handleDashboardClosed
    hideTimers,        \* pending 100 ms timers of showDashboard
    runnerPc,          \* position of FolioRunnerContribution.run()
    startupSetting,    \* workbench.startupEditor outside workspace settings
    runnerEvent,       \* history: the last thing that happened to the dashboard
    found,             \* result slot of the discovery harness
    disposed,          \* dispose() was called on the contribution
    armedListeners,    \* the onDidAddGroup and onDidActiveEditorChange listeners are registered
    buildTimers,       \* tryBuild timers set and not fired yet
    path,              \* history: the branch run() took, "restore" or "cold"
    listed,            \* history: fileService.resolve was called for the folder
    laidOut            \* history: applyLayout was called

vars == <<groups, listing, wbEmpty, pdfOpened, terminalOpened,
          enforcementSetUp, styleInjected, pdfGuard, termGuard, editorGuard,
          watching, pc, runTarget, pendingFinds, pendingOpens, termCalls,
          ensureCalls,
          openCalls, openFails, termCreates, termFails, lastEvent, userBudget,
          outputPane, terminalPane, locksAtOpen, found, disposed, armedListeners, buildTimers,
          path, listed, laidOut, dashboardActive, hiddenParts, pendingShows,
          reopenTimers, hideTimers, runnerPc, startupSetting, runnerEvent>>

\* the state of the dashboard runner
RunnerVars == <<dashboardActive, hiddenParts, pendingShows, reopenTimers, hideTimers,
                runnerPc, startupSetting, runnerEvent>>

None == 0

\* ---- bounds of the model ------------------------------------------------
MaxEditors == 4
MaxGroups == 5
MaxPendingFinds == 2
MaxOpenFails == 1
MaxTermCalls == 3
MaxListing == 4
MaxUserEvents == 2
MaxFirstEvents == 1

\* ---- items --------------------------------------------------------------
\* An editor is [id, kind, sticky].  kind abstracts what the code reads of an
\* editor: "pdf" (resource path ends in .pdf), "terminal" (typeId
\* workbench.editors.terminal), "unwanted" (typeId in UNWANTED_TYPE_IDS),
\* "dashboard" (a LatexProjectsDashboardInput, whose typeId is in
\* UNWANTED_TYPE_IDS as well), "file" (anything else).
Kinds == {"file", "pdf", "terminal", "unwanted"}

IsPdfEditor(e) == e.kind = "pdf"

IsTerminalEditor(e) == e.kind = "terminal"

IsUnwanted(e) == e.kind \in {"unwanted", "dashboard"}

Editor(i, k) == [id |-> i, kind |-> k, sticky |-> FALSE]

\* chromeless: the group's container has the class chromeless-pdf-viewer;
\* observed: hideGroupChrome's MutationObserver watches the class attribute;
\* notify: a mutation record of that observer waits for its callback
Group(i, l, eds) ==
    [id |-> i, locked |-> l, editors |-> eds,
     chromeless |-> FALSE, observed |-> FALSE, notify |-> FALSE]

\* ---- sequences ----------------------------------------------------------
Min(S) == CHOOSE x \in S : \A y \in S : x <= y

InsertAt(s, pos, x) == SubSeq(s, 1, pos - 1) \o <<x>> \o SubSeq(s, pos, Len(s))

RemoveAt(s, pos) == SubSeq(s, 1, pos - 1) \o SubSeq(s, pos + 1, Len(s))

\* ---- queries on the group list -----------------------------------------
GroupIds(G) == {G[i].id : i \in 1..Len(G)}

HasGroup(G, gid) == gid \in GroupIds(G)

Idx(G, gid) == CHOOSE i \in 1..Len(G) : G[i].id = gid

GroupOf(G, gid) == G[Idx(G, gid)]

EditorIds(g) == {g.editors[i].id : i \in 1..Len(g.editors)}

HasKind(g, k) == \E i \in 1..Len(g.editors) : g.editors[i].kind = k

HasEditor(G, gid, eid) == HasGroup(G, gid) /\ eid \in EditorIds(GroupOf(G, gid))

\* the id of the first group whose index is in S (Array.prototype.find)
FirstOf(G, S) == IF S = {} THEN None ELSE G[Min(S)].id

\* a findEditorGroup without its fallback to groups[0]
findEditorGroupUnlockedOnly(G) == FirstOf(G, {i \in 1..Len(G) : ~G[i].locked})

\* findEditorGroup: groups.find(g => !g.isLocked) || groups[0]
findEditorGroup(G) ==
    LET first == FirstOf(G, {i \in 1..Len(G) : ~G[i].locked})
    IN  IF first # None THEN first
        ELSE IF Len(G) > 0 THEN G[1].id ELSE None

\* findPdfGroup: first group with an editor whose resource ends in .pdf
findPdfGroup(G) ==
    FirstOf(G, {i \in 1..Len(G) : HasKind(G[i], "pdf")})

\* findTerminalGroup: first group with a terminal editor
findTerminalGroup(G) ==
    FirstOf(G, {i \in 1..Len(G) : HasKind(G[i], "terminal")})

\* ---- host operations on the group list ----------------------------------
\* The workbench's group and editor primitives.  README "Editor Group
\* Locking": closeEditors returns early for a locked group, removeGroup skips
\* a locked group, an empty locked group is not removed.
SetLocked(G, gid, b) ==
    [i \in 1..Len(G) |-> IF G[i].id = gid THEN [G[i] EXCEPT !.locked = b] ELSE G[i]]

\* a hideGroupChrome that adds the class without an observer
hideGroupChromeUnobserved(G, gid) ==
    [i \in 1..Len(G) |->
        IF G[i].id = gid THEN [G[i] EXCEPT !.chromeless = TRUE] ELSE G[i]]

\* hideGroupChrome: nothing for no group or a container that has the class;
\* else the class is added and the observer registered
hideGroupChrome(G, gid) ==
    [i \in 1..Len(G) |->
        IF G[i].id = gid /\ ~G[i].chromeless
        THEN [G[i] EXCEPT !.chromeless = TRUE, !.observed = TRUE]
        ELSE G[i]]

SetEditors(G, gid, eds) ==
    [i \in 1..Len(G) |-> IF G[i].id = gid THEN [G[i] EXCEPT !.editors = eds] ELSE G[i]]

AddEditor(G, gid, e) ==
    IF ~HasGroup(G, gid) \/ HasEditor(G, gid, e.id) THEN G
    ELSE SetEditors(G, gid, Append(GroupOf(G, gid).editors, e))

RemoveEditor(G, gid, eid) ==
    IF ~HasGroup(G, gid) THEN G
    ELSE LET Keep(x) == x.id # eid
         IN  SetEditors(G, gid, SelectSeq(GroupOf(G, gid).editors, Keep))

\* group.closeEditors(list): nothing happens in a locked group
closeEditors(G, gid, eids) ==
    IF ~HasGroup(G, gid) \/ GroupOf(G, gid).locked THEN G
    ELSE LET Keep(x) == x.id \notin eids
         IN  SetEditors(G, gid, SelectSeq(GroupOf(G, gid).editors, Keep))

\* removeGroup: the last group and a locked group stay
removeGroup(G, gid) ==
    IF ~HasGroup(G, gid) \/ Len(G) = 1 \/ GroupOf(G, gid).locked THEN G
    ELSE RemoveAt(G, Idx(G, gid))

\* mergeGroup(source, target): the source's editors move to the target and
\* the source is removed when it is empty afterwards
mergeGroup(G, src, tgt) ==
    IF ~HasGroup(G, src) \/ ~HasGroup(G, tgt) THEN G
    ELSE LET moved == GroupOf(G, src).editors
             New(x) == x.id \notin EditorIds(GroupOf(G, tgt))
             G1 == IF src = tgt THEN G
                   ELSE SetEditors(SetEditors(G, tgt,
                            GroupOf(G, tgt).editors \o SelectSeq(moved, New)),
                          src, <<>>)
         IN  IF GroupOf(G1, src).editors = <<>> THEN removeGroup(G1, src) ELSE G1

\* stickEditor on every editor of a group / on one editor
StickAll(G, gid) ==
    IF ~HasGroup(G, gid) THEN G
    ELSE SetEditors(G, gid,
           [i \in 1..Len(GroupOf(G, gid).editors) |->
               [GroupOf(G, gid).editors[i] EXCEPT !.sticky = TRUE]])

SetSticky(G, gid, eid, b) ==
    IF ~HasGroup(G, gid) THEN G
    ELSE SetEditors(G, gid,
           [i \in 1..Len(GroupOf(G, gid).editors) |->
               IF GroupOf(G, gid).editors[i].id = eid
               THEN [GroupOf(G, gid).editors[i] EXCEPT !.sticky = b]
               ELSE GroupOf(G, gid).editors[i]])

\* ---- the contribution's listeners ---------------------------------------
MaxCascade == 3

\* closeUnwantedEditors: in every group, close the editors of an unwanted type
RECURSIVE CloseUnwantedFrom(_, _)
CloseUnwantedFrom(G, i) ==
    IF i > Len(G) THEN G
    ELSE LET unwanted == {G[i].editors[j].id : j \in
                            {k \in 1..Len(G[i].editors) : IsUnwanted(G[i].editors[k])}}
         IN  CloseUnwantedFrom(
                 IF unwanted # {} THEN closeEditors(G, G[i].id, unwanted) ELSE G,
                 i + 1)

closeUnwantedEditors(G) == CloseUnwantedFrom(G, 1)

\* a PDF guard that flips the lock on every GROUP_LOCKED event
PdfGuardLockedFlips(G, gid) ==
    IF pdfGuard = gid THEN SetLocked(G, gid, ~GroupOf(G, gid).locked) ELSE G

\* PDF guard, GROUP_LOCKED branch: re-lock the closed-over group
PdfGuardLocked(G, gid) ==
    IF pdfGuard = gid /\ ~GroupOf(G, gid).locked THEN SetLocked(G, gid, TRUE) ELSE G

\* a terminal guard that lets the group stay unlocked
TermGuardLockedOff(G, gid) == G

\* terminal guard, GROUP_LOCKED branch
TermGuardLocked(G, gid) ==
    IF termGuard = gid /\ ~GroupOf(G, gid).locked THEN SetLocked(G, gid, TRUE) ELSE G

\* group.lock(b) with the listeners of its GROUP_LOCKED event
LockGroup(G, gid, b) ==
    IF ~HasGroup(G, gid) \/ GroupOf(G, gid).locked = b THEN G
    ELSE TermGuardLocked(PdfGuardLocked(SetLocked(G, gid, b), gid), gid)

\* PDF guard, EDITOR_STICKY branch: stick every editor of the group again
PdfGuardSticky(G, gid) ==
    IF pdfGuard = gid THEN StickAll(G, gid) ELSE G

\* group.stickEditor / unstickEditor with the listeners of EDITOR_STICKY
StickEditor(G, gid, eid, b) ==
    IF ~HasEditor(G, gid, eid) THEN G
    ELSE PdfGuardSticky(SetSticky(G, gid, eid, b), gid)

\* single-editor guard: close every editor of the group but the opened one
EditorGuardOpen(G, gid, e) ==
    IF editorGuard = gid
    THEN LET others == EditorIds(GroupOf(G, gid)) \ {e.id}
         IN  IF others # {} THEN closeEditors(G, gid, others) ELSE G
    ELSE G

RECURSIVE OnEditorOpen(_, _, _, _)
RECURSIVE moveEditor(_, _, _, _, _)

\* PDF guard, editor-open branch: a non-.pdf editor goes to the editor group
PdfGuardOpen(G, gid, e, fuel) ==
    IF pdfGuard = gid /\ ~IsPdfEditor(e) /\ findEditorGroup(G) # None
    THEN moveEditor(G, gid, e, findEditorGroup(G), fuel)
    ELSE G

\* terminal guard, editor-open branch
TermGuardOpen(G, gid, e, fuel) ==
    IF termGuard = gid /\ ~IsTerminalEditor(e) /\ findEditorGroup(G) # None
    THEN moveEditor(G, gid, e, findEditorGroup(G), fuel)
    ELSE G

\* the listeners of a group's editor-open event, in registration order
OnEditorOpen(G, gid, e, fuel) ==
    EditorGuardOpen(TermGuardOpen(PdfGuardOpen(G, gid, e, fuel), gid, e, fuel), gid, e)

\* group.moveEditor(editor, target): inside one group nothing opens; across
\* groups the editor leaves the source and is opened in the target
moveEditor(G, from, e, to, fuel) ==
    IF from = to \/ ~HasGroup(G, to) THEN G
    ELSE LET already == HasEditor(G, to, e.id)
             G1 == AddEditor(RemoveEditor(G, from, e.id), to, e)
         IN  IF already \/ fuel = 0 THEN G1 ELSE OnEditorOpen(G1, to, e, fuel - 1)

\* onDidActiveEditorChange listener
OnActiveEditorChange(G) ==
    IF armedListeners THEN closeUnwantedEditors(G) ELSE G

\* an editor is opened in a group: the group's listeners, then the
\* active-editor listener
OpenEditorIn(G, gid, e) ==
    IF ~HasGroup(G, gid) THEN G
    ELSE OnActiveEditorChange(OnEditorOpen(AddEditor(G, gid, e), gid, e, MaxCascade))

\* onDidAddGroup listener: with more than 3 groups the new group is merged
\* into findEditorGroup() || groups[0]
MergeTarget(G) ==
    IF findEditorGroup(G) # None THEN findEditorGroup(G) ELSE G[1].id

OnDidAddGroup(G, newGid) ==
    IF armedListeners /\ Len(G) > 3 THEN mergeGroup(G, newGid, MergeTarget(G)) ELSE G

\* ---- fresh identifiers ---------------------------------------------------
AllEditorIds(G) == UNION {EditorIds(G[i]) : i \in 1..Len(G)}

EditorCount(G) == Cardinality(AllEditorIds(G))

FreshEditor(G) == Min({i \in 1..(EditorCount(G) + 1) : i \notin AllEditorIds(G)})

\* a group id that no group has and no closure or pending call still holds
HeldGroupIds ==
    {pdfGuard, termGuard, editorGuard, runTarget}
        \cup {pendingOpens[i] : i \in 1..Len(pendingOpens)}
        \cup {termCalls[i].target : i \in 1..Len(termCalls)}

FreshGroup(G) ==
    LET used == GroupIds(G) \cup HeldGroupIds
    IN  Min({i \in 1..(Cardinality(used) + 1) : i \notin used})

\* ---- the workspace folder ------------------------------------------------
\* A child of the folder is [stem, ext, dir]: its name is stem followed by
\* ext, ext being the part from the last dot on.  name.endsWith('.pdf') is
\* ext = ".pdf", name.replace(/\.tex$/, '') of a .tex name is its stem.
File(stem, ext) == [stem |-> stem, ext |-> ext, dir |-> FALSE]

Dir(stem, ext) == [stem |-> stem, ext |-> ext, dir |-> TRUE]

NameOf(c) == <<c.stem, c.ext>>

\* a discovery whose second rule walks the .pdf files instead of the .tex
\* files
findPdfByPdfOrder(L) ==
    LET IsFile(c) == ~c.dir
        files == SelectSeq(L, IsFile)
        IsTex(c) == c.ext = ".tex"
        IsPdf(c) == c.ext = ".pdf"
        texFiles == SelectSeq(files, IsTex)
        pdfFiles == SelectSeq(files, IsPdf)
        hasMainPdf == \E i \in 1..Len(files) : NameOf(files[i]) = <<"main", ".pdf">>
        Matching(c) == \E j \in 1..Len(texFiles) : texFiles[j].stem = c.stem
        matches == SelectSeq(pdfFiles, Matching)
    IN  IF hasMainPdf THEN << <<"main", ".pdf">> >>
        ELSE IF Len(matches) > 0 THEN << NameOf(matches[1]) >>
        ELSE IF Len(pdfFiles) > 0 THEN << NameOf(pdfFiles[1]) >>
        ELSE <<>>

\* a discovery that takes the first .pdf file whatever its name
findPdfFirstListed(L) ==
    LET IsPdfFile(c) == ~c.dir /\ c.ext = ".pdf"
        pdfFiles == SelectSeq(L, IsPdfFile)
    IN  IF Len(pdfFiles) > 0 THEN << NameOf(pdfFiles[1]) >> ELSE <<>>

\* findPdf: main.pdf, else <tex basename>.pdf for the first .tex file that
\* has one, else the first .pdf file; <<>> stands for undefined
findPdf(L) ==
    LET IsFile(c) == ~c.dir
        files == SelectSeq(L, IsFile)
        IsTex(c) == c.ext = ".tex"
        IsPdf(c) == c.ext = ".pdf"
        texFiles == SelectSeq(files, IsTex)
        pdfFiles == SelectSeq(files, IsPdf)
        hasMainPdf == \E i \in 1..Len(files) : NameOf(files[i]) = <<"main", ".pdf">>
        Matching(t) == \E j \in 1..Len(pdfFiles) : pdfFiles[j].stem = t.stem
        matches == SelectSeq(texFiles, Matching)
    IN  IF hasMainPdf THEN << <<"main", ".pdf">> >>
        ELSE IF Len(matches) > 0 THEN << <<matches[1].stem, ".pdf">> >>
        ELSE IF Len(pdfFiles) > 0 THEN << NameOf(pdfFiles[1]) >>
        ELSE <<>>

\* rootStat.children.find(main.tex) || find(name ends in .tex)
HasTexFile(L) == \E i \in 1..Len(L) : L[i].ext = ".tex"

\* ---- the contribution's methods -----------------------------------------
\* editorGroupsService.addGroup: a new empty unlocked group at a position of
\* the enumeration order, then the onDidAddGroup listener
addGroup(G, pos, nid) == OnDidAddGroup(InsertAt(G, pos, Group(nid, FALSE, <<>>)), nid)

\* applyLayout with the three-leaf layout: groups are created until there
\* are three; the groups that exist keep their editors and locks
RECURSIVE applyLayout(_)
applyLayout(G) ==
    IF Len(G) < 3 THEN applyLayout(Append(G, Group(FreshGroup(G), FALSE, <<>>)))
    ELSE G

\* a setupEnforcement without its latch test: every call registers anew
setupEnforcementUnlatched(G) ==
    [groups |-> closeUnwantedEditors(hideGroupChrome(G, findPdfGroup(G))),
     pdfGuard |-> findPdfGroup(G),
     termGuard |-> findTerminalGroup(G),
     editorGuard |-> findEditorGroup(closeUnwantedEditors(G))]

\* setupEnforcement: the guards close over the groups found now
setupEnforcement(G) ==
    IF enforcementSetUp
    THEN [groups |-> G, pdfGuard |-> pdfGuard, termGuard |-> termGuard,
          editorGuard |-> editorGuard]
    ELSE [groups |-> closeUnwantedEditors(hideGroupChrome(G, findPdfGroup(G))),
          pdfGuard |-> findPdfGroup(G),
          termGuard |-> findTerminalGroup(G),
          editorGuard |-> findEditorGroup(closeUnwantedEditors(G))]

Arm(G) ==
    /\ groups' = setupEnforcement(G).groups
    /\ pdfGuard' = setupEnforcement(G).pdfGuard
    /\ termGuard' = setupEnforcement(G).termGuard
    /\ editorGuard' = setupEnforcement(G).editorGuard
    /\ enforcementSetUp' = TRUE
    /\ armedListeners' = (armedListeners \/ ~enforcementSetUp)

NotArmed(G) ==
    /\ groups' = G
    /\ UNCHANGED <<pdfGuard, termGuard, editorGuard, enforcementSetUp, armedListeners>>

\* the group ensureTerminal finds a terminal in when it is called with the
\* latch unset
AdoptedTerminal(G) ==
    IF ~terminalOpened /\ findTerminalGroup(G) # None THEN findTerminalGroup(G)
    ELSE terminalPane

\* ensureTerminal without its first test
TerminalLatchIgnored == FALSE

\* if (this.terminalOpened) return
TerminalLatched == terminalOpened

\* ensureTerminal up to its await: target is the group createTerminal was
\* called for, None when the method returned before calling it
ensureTerminalStart(G) ==
    IF TerminalLatched
    THEN [groups |-> G, opened |-> TRUE, target |-> None]
    ELSE IF findTerminalGroup(G) # None
    THEN [groups |-> hideGroupChrome(LockGroup(G, findTerminalGroup(G), TRUE),
                                     findTerminalGroup(G)),
          opened |-> TRUE, target |-> None]
    ELSE IF findEditorGroup(G) = None
    THEN [groups |-> G, opened |-> FALSE, target |-> None]
    ELSE [groups |-> addGroup(G, Len(G) + 1, FreshGroup(G)),
          opened |-> TRUE, target |-> FreshGroup(G)]

\* createTerminal resolved: the terminal editor is in the group, the group
\* is locked, its editors are sticky and its chrome is hidden
TerminalCreatedIn(G, gid) ==
    hideGroupChrome(
        StickAll(LockGroup(OpenEditorIn(G, gid, Editor(FreshEditor(G), "terminal")),
                           gid, TRUE), gid),
        gid)

\* ensureTerminal after its await (ok: createTerminal resolved; else the
\* catch block ran)
ensureTerminalFinish(G, gid, ok) ==
    IF ok THEN [groups |-> TerminalCreatedIn(G, gid), opened |-> TRUE]
    ELSE [groups |-> G, opened |-> FALSE]

\* openPdfInLockedGroup: the group the artifact is opened in
LockedEmptyTarget(G) ==
    LET lockedEmpty == FirstOf(G, {i \in 1..Len(G) : G[i].locked /\ G[i].editors = <<>>})
    IN  IF lockedEmpty # None THEN lockedEmpty
        ELSE IF Len(G) > 0 THEN G[Len(G)].id ELSE None

\* ---- initial states -------------------------------------------------------
\* lastEvent: what happened, in which group, to which editor of which kind,
\* and for a merged new group the group it was merged into
Event(t, g, e, k, m) == [type |-> t, group |-> g, editor |-> e, kind |-> k, target |-> m]

NoEvent == Event("none", None, None, "none", None)

Sticky(i, k) == [id |-> i, kind |-> k, sticky |-> TRUE]

\* the group lists a window can start with: a fresh window, a window showing
\* a start page, windows restored with and without the artifact and terminal
InitLayouts ==
    { << Group(1, FALSE, <<>>) >>,
      << Group(1, FALSE, << Editor(1, "file") >>) >>,
      << Group(1, FALSE, << Editor(1, "unwanted") >>) >>,
      << Group(1, FALSE, << Editor(1, "file") >>),
         Group(2, FALSE, << Editor(2, "terminal") >>) >>,
      << Group(1, FALSE, << Editor(1, "file") >>),
         Group(2, FALSE, << Editor(2, "pdf") >>) >>,
      << Group(1, FALSE, << Editor(1, "file") >>),
         Group(2, FALSE, << Editor(2, "file") >>) >>,
      << Group(1, FALSE, << Editor(1, "file") >>),
         Group(2, TRUE, << Sticky(2, "terminal") >>),
         Group(3, TRUE, << Sticky(3, "pdf") >>) >>,
      << Group(1, FALSE, << Editor(1, "file") >>),
         Group(2, TRUE, <<>>),
         Group(3, TRUE, << Sticky(3, "pdf") >>) >> }

InitListings ==
    { <<>>,
      << File("main", ".tex") >>,
      << File("main", ".tex"), File("main", ".pdf") >> }

EngineConstructed ==
    /\ pdfOpened = FALSE
    /\ terminalOpened = FALSE
    /\ enforcementSetUp = FALSE
    /\ armedListeners = FALSE
    /\ disposed = FALSE
    /\ buildTimers = 0
    /\ path = "none"
    /\ listed = FALSE
    /\ laidOut = FALSE
    /\ styleInjected = FALSE
    /\ pdfGuard = None
    /\ termGuard = None
    /\ editorGuard = None
    /\ watching = FALSE
    /\ runTarget = None
    /\ pendingFinds = 0
    /\ pendingOpens = <<>>
    /\ termCalls = <<>>
    /\ ensureCalls = 0
    /\ openCalls = 0
    /\ openFails = 0
    /\ termCreates = 0
    /\ termFails = 0
    /\ lastEvent = NoEvent
    /\ outputPane = None
    /\ terminalPane = None
    /\ locksAtOpen = <<>>
    /\ found = <<>>

\* the dashboard runner as constructed
RunnerConstructed ==
    /\ dashboardActive = FALSE
    /\ hiddenParts = {}
    /\ pendingShows = 0
    /\ reopenTimers = 0
    /\ hideTimers = 0
    /\ runnerPc = "init"
    /\ runnerEvent = "none"

\* both contributions as constructed, the dashboard not being the
\* configured startup editor
InitEngine ==
    /\ EngineConstructed
    /\ RunnerConstructed
    /\ startupSetting = "none"

Init ==
    /\ InitEngine
    /\ groups \in InitLayouts
    /\ listing \in InitListings
    /\ wbEmpty \in BOOLEAN
    /\ wbEmpty => (listing = <<>> /\ Len(groups) = 1)
    /\ userBudget = MaxUserEvents
    /\ pc = "init"

\* ---- run() ---------------------------------------------------------------
Harness == <<termCalls, found, disposed, buildTimers, path, listed, laidOut>>

Other == <<termCalls, found, userBudget, disposed, buildTimers, path, listed, laidOut>>

\* what run()'s own steps leave alone
Rest == <<termCalls, found, userBudget, disposed, buildTimers>>

\* the restore branch ends with return
AfterRestoreFallsThrough == "findPdf"

AfterRestore == "done"

\* run() with no folder open, taken as if a folder were open
WorkbenchNeverEmpty == FALSE

\* getWorkbenchState() === WorkbenchState.EMPTY
WorkbenchIsEmpty == wbEmpty

\* run() from the Restored phase to the await of setupFocusedMode
RunRestored ==
    /\ pc = "init"
    /\ IF WorkbenchIsEmpty
       THEN /\ pc' = "done"
            /\ UNCHANGED <<groups, styleInjected>>
       ELSE /\ groups' = closeUnwantedEditors(groups)
            /\ styleInjected' = TRUE
            /\ pc' = "focusedMode"
    /\ lastEvent' = NoEvent
    /\ UNCHANGED <<listing, wbEmpty, pdfOpened, terminalOpened, enforcementSetUp, armedListeners,
                   pdfGuard, termGuard, editorGuard, watching, runTarget,
                   pendingFinds, pendingOpens, ensureCalls, openCalls, openFails,
                   termCreates, termFails, Other>>
    /\ UNCHANGED outputPane
    /\ UNCHANGED terminalPane
    /\ UNCHANGED locksAtOpen
    /\ UNCHANGED RunnerVars

\* run() after setupFocusedMode: a group with a .pdf editor is the restore
\* case (lock it, ensureTerminal, setupEnforcement); else findPdf is called
RunRestoreCheck ==
    /\ pc = "focusedMode"
    /\ IF findPdfGroup(groups) # None
       THEN LET G1 == LockGroup(groups, findPdfGroup(groups), TRUE)
                et == ensureTerminalStart(G1)
            IN  /\ pdfOpened' = TRUE
                /\ terminalOpened' = et.opened
                /\ ensureCalls' = ensureCalls + 1
                /\ IF et.target = None
                   THEN /\ Arm(et.groups)
                        /\ pc' = AfterRestore
                        /\ UNCHANGED <<runTarget, termCreates>>
                   ELSE /\ NotArmed(et.groups)
                        /\ pc' = "restoreTerminal"
                        /\ runTarget' = et.target
                        /\ termCreates' = termCreates + 1
       ELSE /\ pc' = "findPdf"
            /\ UNCHANGED <<groups, pdfOpened, terminalOpened, ensureCalls,
                           enforcementSetUp, armedListeners, pdfGuard, termGuard, editorGuard,
                           runTarget, termCreates>>
    /\ lastEvent' = NoEvent
    /\ path' = IF findPdfGroup(groups) # None THEN "restore" ELSE "cold"
    /\ listed' = (listed \/ pc' = "findPdf")
    /\ UNCHANGED <<listing, wbEmpty, styleInjected, watching, pendingFinds,
                   pendingOpens, openCalls, openFails, termFails, laidOut, Rest>>
    /\ outputPane' = findPdfGroup(groups)
    /\ UNCHANGED locksAtOpen
    /\ UNCHANGED RunnerVars
    /\ terminalPane' = IF findPdfGroup(groups) # None THEN AdoptedTerminal(groups)
                       ELSE terminalPane

\* restore case, createTerminal of ensureTerminal settled
RunRestoreTerminalDone(ok) ==
    /\ pc = "restoreTerminal"
    /\ LET ef == ensureTerminalFinish(groups, runTarget, ok)
       IN  /\ terminalOpened' = ef.opened
           /\ Arm(ef.groups)
    /\ termFails' = IF ok THEN termFails ELSE termFails + 1
    /\ pc' = AfterRestore
    /\ listed' = (listed \/ pc' = "findPdf")
    /\ runTarget' = None
    /\ lastEvent' = NoEvent
    /\ UNCHANGED <<listing, wbEmpty, pdfOpened, styleInjected, watching,
                   pendingFinds, pendingOpens, ensureCalls, openCalls, openFails,
                   termCreates, path, laidOut, Rest>>
    /\ UNCHANGED outputPane
    /\ UNCHANGED locksAtOpen
    /\ UNCHANGED RunnerVars
    /\ terminalPane' = IF ok THEN runTarget ELSE terminalPane

\* a watchForPdf that creates no terminal
WatchSkipsTerminal(G) == FALSE

\* watchForPdf: groups.length >= 2 && !this.terminalOpened
WatchCreatesTerminal(G) == Len(G) >= 2 /\ ~terminalOpened

\* cold start, findPdf settled: openPdfViewer up to its await of openEditor,
\* or watchForPdf up to its await of createTerminal
RunFindPdfDone ==
    /\ pc = "findPdf"
    /\ IF findPdf(listing) # <<>>
       THEN /\ IF pdfOpened
               THEN pc' = "done" /\ UNCHANGED <<pdfOpened, openCalls>>
               ELSE pc' = "openPdf" /\ pdfOpened' = TRUE /\ openCalls' = openCalls + 1
            /\ UNCHANGED <<groups, terminalOpened, runTarget, termCreates, watching>>
       ELSE LET G1 == applyLayout(groups)
                G2 == IF Len(G1) >= 3
                      THEN hideGroupChrome(LockGroup(G1, G1[3].id, TRUE), G1[3].id)
                      ELSE G1
            IN  /\ groups' = G2
                /\ IF WatchCreatesTerminal(G1)
                   THEN /\ terminalOpened' = TRUE
                        /\ runTarget' = G1[2].id
                        /\ termCreates' = termCreates + 1
                        /\ pc' = "watchTerminal"
                        /\ UNCHANGED watching
                   ELSE /\ watching' = TRUE
                        /\ pc' = "texResolve"
                        /\ UNCHANGED <<terminalOpened, runTarget, termCreates>>
                /\ UNCHANGED <<pdfOpened, openCalls>>
    /\ lastEvent' = NoEvent
    /\ UNCHANGED <<listing, wbEmpty, enforcementSetUp, armedListeners, styleInjected, pdfGuard,
                   termGuard, editorGuard, pendingFinds, pendingOpens,
                   ensureCalls, openFails, termFails, path, listed, Rest>>
    /\ laidOut' = (laidOut \/ findPdf(listing) = <<>>)
    /\ UNCHANGED outputPane
    /\ UNCHANGED terminalPane
    /\ UNCHANGED locksAtOpen
    /\ UNCHANGED RunnerVars

\* watchForPdf, createTerminal settled; then the file listener is registered
RunWatchTerminalDone(ok) ==
    /\ pc = "watchTerminal"
    /\ groups' = IF ok THEN TerminalCreatedIn(groups, runTarget) ELSE groups
    /\ terminalOpened' = ok
    /\ termFails' = IF ok THEN termFails ELSE termFails + 1
    /\ watching' = TRUE
    /\ pc' = "texResolve"
    /\ runTarget' = None
    /\ lastEvent' = NoEvent
    /\ UNCHANGED <<listing, wbEmpty, pdfOpened, enforcementSetUp, armedListeners, styleInjected,
                   pdfGuard, termGuard, editorGuard, pendingFinds, pendingOpens,
                   ensureCalls, openCalls, openFails, termCreates, Other>>
    /\ UNCHANGED outputPane
    /\ UNCHANGED locksAtOpen
    /\ UNCHANGED RunnerVars
    /\ terminalPane' = IF ok THEN runTarget ELSE terminalPane

\* tryBuild(3000); tryBuild(6000); tryBuild(10000)
BuildTimers == 3

\* run() after watchForPdf, fileService.resolve settled: open a .tex file in
\* findEditorGroup() when there is one, else setupEnforcement
RunTexResolved ==
    /\ pc = "texResolve"
    /\ IF HasTexFile(listing)
       THEN /\ runTarget' = findEditorGroup(groups)
            /\ pc' = "texOpen"
            /\ NotArmed(groups)
       ELSE /\ Arm(groups)
            /\ pc' = "done"
            /\ UNCHANGED runTarget
    /\ lastEvent' = NoEvent
    /\ buildTimers' = IF pc' = "done" THEN BuildTimers ELSE buildTimers
    /\ UNCHANGED <<listing, wbEmpty, pdfOpened, terminalOpened, styleInjected,
                   watching, pendingFinds, pendingOpens, ensureCalls, openCalls,
                   openFails, termCreates, termFails, termCalls, found,
                   userBudget, disposed, path, listed, laidOut>>
    /\ UNCHANGED outputPane
    /\ UNCHANGED terminalPane
    /\ UNCHANGED locksAtOpen
    /\ UNCHANGED RunnerVars

\* the .tex file's openEditor settled (a failure is ignored), setupEnforcement
RunTexOpened(ok) ==
    /\ pc = "texOpen"
    /\ Arm(IF ok THEN OpenEditorIn(groups, runTarget, Editor(FreshEditor(groups), "file"))
           ELSE groups)
    /\ pc' = "done"
    /\ runTarget' = None
    /\ lastEvent' = NoEvent
    /\ buildTimers' = IF pc' = "done" THEN BuildTimers ELSE buildTimers
    /\ UNCHANGED <<listing, wbEmpty, pdfOpened, terminalOpened, styleInjected,
                   watching, pendingFinds, pendingOpens, ensureCalls, openCalls,
                   openFails, termCreates, termFails, termCalls, found,
                   userBudget, disposed, path, listed, laidOut>>
    /\ UNCHANGED outputPane
    /\ UNCHANGED terminalPane
    /\ UNCHANGED locksAtOpen
    /\ UNCHANGED RunnerVars

\* openEditor(pdf, SIDE_GROUP) resolved with an editor: the side group is a
\* new group, or an unlocked group beside the active one
SideGroups(G) ==
    {None} \cup {G[i].id : i \in {j \in 1..Len(G) : Len(G) >= 2 /\ ~G[j].locked}}

SideGroup(G, side) == IF side = None THEN FreshGroup(G) ELSE side

PdfOpenedAside(G, side) ==
    LET gid == SideGroup(G, side)
        eid == FreshEditor(G)
        G1 == IF side = None THEN addGroup(G, Len(G) + 1, gid) ELSE G
        G2 == OpenEditorIn(G1, gid, Editor(eid, "pdf"))
    IN  StickEditor(LockGroup(G2, gid, TRUE), gid, eid, TRUE)

\* openPdfViewer, openEditor settled: "ok" an editor, "none" no editor,
\* "fail" rejected.  Then ensureTerminal up to its await.
RunOpenPdfDone(res, side) ==
    /\ pc = "openPdf"
    /\ IF res = "fail"
       THEN /\ pdfOpened' = FALSE
            /\ openFails' = openFails + 1
            /\ pc' = "done"
            /\ NotArmed(groups)
            /\ UNCHANGED <<terminalOpened, runTarget, termCreates, ensureCalls>>
       ELSE LET G1 == IF res = "ok" THEN PdfOpenedAside(groups, side) ELSE groups
                et == ensureTerminalStart(G1)
            IN  /\ terminalOpened' = et.opened
                /\ ensureCalls' = ensureCalls + 1
                /\ IF et.target = None
                   THEN /\ Arm(applyLayout(et.groups))
                        /\ pc' = "done"
                        /\ UNCHANGED <<runTarget, termCreates>>
                   ELSE /\ NotArmed(et.groups)
                        /\ pc' = "foundTerminal"
                        /\ runTarget' = et.target
                        /\ termCreates' = termCreates + 1
                /\ UNCHANGED <<pdfOpened, openFails>>
    /\ lastEvent' = NoEvent
    /\ UNCHANGED <<listing, wbEmpty, styleInjected, watching, pendingFinds,
                   pendingOpens, openCalls, termFails, path, listed, Rest>>
    /\ laidOut' = (laidOut \/ (res # "fail" /\ pc' = "done"))
    /\ outputPane' = IF res = "ok" THEN SideGroup(groups, side) ELSE outputPane
    /\ UNCHANGED locksAtOpen
    /\ UNCHANGED RunnerVars
    /\ terminalPane' = IF res = "fail" THEN terminalPane
                       ELSE AdoptedTerminal(IF res = "ok" THEN PdfOpenedAside(groups, side)
                                            ELSE groups)

\* openPdfViewer, createTerminal of ensureTerminal settled: applyLayout and
\* setupEnforcement
RunFoundTerminalDone(ok) ==
    /\ pc = "foundTerminal"
    /\ LET ef == ensureTerminalFinish(groups, runTarget, ok)
       IN  /\ terminalOpened' = ef.opened
           /\ Arm(applyLayout(ef.groups))
    /\ termFails' = IF ok THEN termFails ELSE termFails + 1
    /\ pc' = "done"
    /\ runTarget' = None
    /\ lastEvent' = NoEvent
    /\ UNCHANGED <<listing, wbEmpty, pdfOpened, styleInjected, watching,
                   pendingFinds, pendingOpens, ensureCalls, openCalls, openFails,
                   termCreates, path, listed, Rest>>
    /\ laidOut' = TRUE
    /\ UNCHANGED outputPane
    /\ UNCHANGED locksAtOpen
    /\ UNCHANGED RunnerVars
    /\ terminalPane' = IF ok THEN runTarget ELSE terminalPane

\* ---- the file listener of watchForPdf ------------------------------------
\* openPdfInLockedGroup goes on only with the latch unset
PdfLatchUnchecked == TRUE

PdfLatchFree == ~pdfOpened

\* the file listener calls findPdf only with the latch unset
ListenerRuns == watching /\ ~pdfOpened

MainPdf == File("main", ".pdf")

HasMainPdf(L) == \E i \in 1..Len(L) : L[i] = MainPdf

\* a file of the folder is added (main.pdf is built) or updated; the
\* listener returns when pdfOpened is set and calls findPdf otherwise
FilesChanged(addPdf) ==
    /\ pendingFinds < MaxPendingFinds
    /\ addPdf => ~HasMainPdf(listing)
    /\ listing' = IF addPdf THEN Append(listing, MainPdf) ELSE listing
    /\ pendingFinds' = IF ListenerRuns THEN pendingFinds + 1 ELSE pendingFinds
    /\ lastEvent' = NoEvent
    /\ UNCHANGED <<groups, wbEmpty, pdfOpened, terminalOpened, enforcementSetUp, armedListeners,
                   styleInjected, pdfGuard, termGuard, editorGuard, watching, pc,
                   runTarget, pendingOpens, ensureCalls, openCalls, openFails,
                   termCreates, termFails, Other>>
    /\ UNCHANGED outputPane
    /\ UNCHANGED terminalPane
    /\ UNCHANGED locksAtOpen
    /\ UNCHANGED RunnerVars

\* the panes and the locked panes of a pane list
LockState(G) ==
    [ids |-> GroupIds(G), locked |-> {G[i].id : i \in {j \in 1..Len(G) : G[j].locked}}]

\* findPdf(rootUri).then(...): with a result openPdfInLockedGroup runs up to
\* its await of openEditor
FindDone ==
    /\ pendingFinds > 0
    /\ pendingFinds' = pendingFinds - 1
    /\ IF findPdf(listing) # <<>> /\ PdfLatchFree /\ LockedEmptyTarget(groups) # None
       THEN /\ pdfOpened' = TRUE
            /\ groups' = LockGroup(groups, LockedEmptyTarget(groups), FALSE)
            /\ pendingOpens' = Append(pendingOpens, LockedEmptyTarget(groups))
            /\ openCalls' = openCalls + 1
            /\ locksAtOpen' = Append(locksAtOpen, LockState(groups))
       ELSE UNCHANGED <<pdfOpened, groups, pendingOpens, openCalls, locksAtOpen>>
    /\ lastEvent' = NoEvent
    /\ UNCHANGED RunnerVars
    /\ UNCHANGED <<listing, wbEmpty, terminalOpened, enforcementSetUp, armedListeners,
                   styleInjected, pdfGuard, termGuard, editorGuard, watching, pc,
                   runTarget, ensureCalls, openFails, termCreates, termFails,
                   Other>>
    /\ UNCHANGED outputPane
    /\ UNCHANGED terminalPane

\* openPdfInLockedGroup, openEditor settled
PdfOpenedIn(G, gid, res) ==
    LET eid == FreshEditor(G)
        G1 == IF res = "ok" THEN OpenEditorIn(G, gid, Editor(eid, "pdf")) ELSE G
        G2 == LockGroup(G1, gid, TRUE)
    IN  IF res = "ok" THEN StickEditor(G2, gid, eid, TRUE) ELSE G2

OpenLockedDone(i, res) ==
    /\ i \in 1..Len(pendingOpens)
    /\ pendingOpens' = RemoveAt(pendingOpens, i)
    /\ IF res = "fail"
       THEN /\ openFails < MaxOpenFails
            /\ pdfOpened' = FALSE
            /\ openFails' = openFails + 1
            /\ NotArmed(groups)
       ELSE /\ Arm(PdfOpenedIn(groups, pendingOpens[i], res))
            /\ UNCHANGED <<pdfOpened, openFails>>
    /\ lastEvent' = NoEvent
    /\ UNCHANGED <<listing, wbEmpty, terminalOpened, styleInjected, watching, pc,
                   runTarget, pendingFinds, ensureCalls, openCalls, termCreates,
                   termFails, Other>>
    /\ outputPane' = IF res = "ok" THEN pendingOpens[i] ELSE outputPane
    /\ UNCHANGED terminalPane
    /\ locksAtOpen' = RemoveAt(locksAtOpen, i)
    /\ UNCHANGED RunnerVars

\* ---- events of the user and the host -------------------------------------
\* the user acts once run() has returned
UserCanAct == pc = "done" /\ userBudget > 0

UserOpenEditor(gid, kind) ==
    /\ UserCanAct
    /\ userBudget' = userBudget - 1
    /\ gid \in GroupIds(groups)
    /\ EditorCount(groups) < MaxEditors
    /\ groups' = OpenEditorIn(groups, gid, Editor(FreshEditor(groups), kind))
    /\ lastEvent' = Event("open", gid, FreshEditor(groups), kind, None)
    /\ UNCHANGED <<listing, wbEmpty, pdfOpened, terminalOpened, enforcementSetUp, armedListeners,
                   styleInjected, pdfGuard, termGuard, editorGuard, watching, pc,
                   runTarget, pendingFinds, pendingOpens, ensureCalls, openCalls,
                   openFails, termCreates, termFails, Harness>>
    /\ UNCHANGED outputPane
    /\ UNCHANGED terminalPane
    /\ UNCHANGED locksAtOpen
    /\ UNCHANGED RunnerVars

UserAddGroup(pos) ==
    /\ UserCanAct
    /\ userBudget' = userBudget - 1
    /\ pos \in 1..(Len(groups) + 1)
    /\ Len(groups) < MaxGroups
    /\ groups' = addGroup(groups, pos, FreshGroup(groups))
    /\ lastEvent' =
         Event("addGroup", FreshGroup(groups), None, "none",
               IF armedListeners /\ Len(groups) + 1 > 3
               THEN MergeTarget(InsertAt(groups, pos, Group(FreshGroup(groups), FALSE, <<>>)))
               ELSE None)
    /\ UNCHANGED <<listing, wbEmpty, pdfOpened, terminalOpened, enforcementSetUp, armedListeners,
                   styleInjected, pdfGuard, termGuard, editorGuard, watching, pc,
                   runTarget, pendingFinds, pendingOpens, ensureCalls, openCalls,
                   openFails, termCreates, termFails, Harness>>
    /\ UNCHANGED outputPane
    /\ UNCHANGED terminalPane
    /\ UNCHANGED locksAtOpen
    /\ UNCHANGED RunnerVars

\* a PDF guard whose re-lock also clears the pdfOpened latch
UserToggleLockClearsLatch(gid) ==
    /\ UserCanAct
    /\ userBudget' = userBudget - 1
    /\ gid \in GroupIds(groups)
    /\ groups' = LockGroup(groups, gid, ~GroupOf(groups, gid).locked)
    /\ lastEvent' = Event(IF GroupOf(groups, gid).locked THEN "unlock" ELSE "lock",
                          gid, None, "none", None)
    /\ pdfOpened' = (pdfOpened /\ ~(pdfGuard = gid /\ GroupOf(groups, gid).locked))
    /\ UNCHANGED <<listing, wbEmpty, terminalOpened, enforcementSetUp, armedListeners,
                   styleInjected, pdfGuard, termGuard, editorGuard, watching, pc,
                   runTarget, pendingFinds, pendingOpens, ensureCalls, openCalls,
                   openFails, termCreates, termFails, Harness>>
    /\ UNCHANGED outputPane
    /\ UNCHANGED terminalPane
    /\ UNCHANGED locksAtOpen
    /\ UNCHANGED RunnerVars

UserToggleLock(gid) ==
    /\ UserCanAct
    /\ userBudget' = userBudget - 1
    /\ gid \in GroupIds(groups)
    /\ groups' = LockGroup(groups, gid, ~GroupOf(groups, gid).locked)
    /\ lastEvent' = Event(IF GroupOf(groups, gid).locked THEN "unlock" ELSE "lock",
                          gid, None, "none", None)
    /\ UNCHANGED <<listing, wbEmpty, pdfOpened, terminalOpened, enforcementSetUp, armedListeners,
                   styleInjected, pdfGuard, termGuard, editorGuard, watching, pc,
                   runTarget, pendingFinds, pendingOpens, ensureCalls, openCalls,
                   openFails, termCreates, termFails, Harness>>
    /\ UNCHANGED outputPane
    /\ UNCHANGED terminalPane
    /\ UNCHANGED locksAtOpen
    /\ UNCHANGED RunnerVars

\* the user removes the sticky marker of an editor
UserUnstick(gid, eid) ==
    /\ UserCanAct
    /\ userBudget' = userBudget - 1
    /\ HasEditor(groups, gid, eid)
    /\ \E i \in 1..Len(GroupOf(groups, gid).editors) :
          /\ GroupOf(groups, gid).editors[i].id = eid
          /\ GroupOf(groups, gid).editors[i].sticky
          /\ lastEvent' = Event("unstick", gid, eid, GroupOf(groups, gid).editors[i].kind, None)
    /\ groups' = StickEditor(groups, gid, eid, FALSE)
    /\ UNCHANGED <<listing, wbEmpty, pdfOpened, terminalOpened, enforcementSetUp, armedListeners,
                   styleInjected, pdfGuard, termGuard, editorGuard, watching, pc,
                   runTarget, pendingFinds, pendingOpens, ensureCalls, openCalls,
                   openFails, termCreates, termFails, Harness>>
    /\ UNCHANGED outputPane
    /\ UNCHANGED terminalPane
    /\ UNCHANGED locksAtOpen
    /\ UNCHANGED RunnerVars

Results == {"ok", "none", "fail"}

Next ==
    \/ RunRestored
    \/ RunRestoreCheck
    \/ \E ok \in BOOLEAN : RunRestoreTerminalDone(ok)
    \/ RunFindPdfDone
    \/ \E ok \in BOOLEAN : RunWatchTerminalDone(ok)
    \/ RunTexResolved
    \/ \E ok \in BOOLEAN : RunTexOpened(ok)
    \/ \E res \in Results, side \in SideGroups(groups) : RunOpenPdfDone(res, side)
    \/ \E ok \in BOOLEAN : RunFoundTerminalDone(ok)
    \/ \E addPdf \in BOOLEAN : FilesChanged(addPdf)
    \/ FindDone
    \/ \E i \in 1..Len(pendingOpens), res \in Results : OpenLockedDone(i, res)
    \/ \E gid \in GroupIds(groups), kind \in Kinds : UserOpenEditor(gid, kind)
    \/ \E pos \in 1..(Len(groups) + 1) : UserAddGroup(pos)
    \/ \E gid \in GroupIds(groups) : UserToggleLock(gid)
    \/ \E gid \in GroupIds(groups), eid \in AllEditorIds(groups) : UserUnstick(gid, eid)

Spec == Init /\ [][Next]_vars

\* ---- activation followed by the first events of the user ----------------
InitFirst ==
    /\ InitEngine
    /\ groups \in InitLayouts
    /\ listing \in InitListings
    /\ wbEmpty \in BOOLEAN
    /\ wbEmpty => (listing = <<>> /\ Len(groups) = 1)
    /\ userBudget = MaxFirstEvents
    /\ pc = "init"

SpecFirst == InitFirst /\ [][Next]_vars

\* ---- activation and file events alone, the user doing nothing ------------
InitActivation ==
    /\ InitEngine
    /\ groups \in InitLayouts
    /\ listing \in InitListings
    /\ wbEmpty \in BOOLEAN
    /\ wbEmpty => (listing = <<>> /\ Len(groups) = 1)
    /\ userBudget = 0
    /\ pc = "init"

NextActivation ==
    \/ RunRestored
    \/ RunRestoreCheck
    \/ \E ok \in BOOLEAN : RunRestoreTerminalDone(ok)
    \/ RunFindPdfDone
    \/ \E ok \in BOOLEAN : RunWatchTerminalDone(ok)
    \/ RunTexResolved
    \/ \E ok \in BOOLEAN : RunTexOpened(ok)
    \/ \E res \in Results, side \in SideGroups(groups) : RunOpenPdfDone(res, side)
    \/ \E ok \in BOOLEAN : RunFoundTerminalDone(ok)
    \/ \E addPdf \in BOOLEAN : FilesChanged(addPdf)
    \/ FindDone
    \/ \E i \in 1..Len(pendingOpens), res \in Results : OpenLockedDone(i, res)

SpecActivation == InitActivation /\ [][NextActivation]_vars

\* ---- teardown ---------------------------------------------------------------
\* dispose(): every listener registered so far with this._register is
\* removed; the fields keep their values, and run(), the findPdf().then
\* continuations and the timers are not cancelled. A listener registered
\* after dispose() is not tracked by the disposed store and stays registered.
Dispose ==
    /\ ~disposed
    /\ disposed' = TRUE
    /\ armedListeners' = FALSE
    /\ pdfGuard' = None
    /\ termGuard' = None
    /\ editorGuard' = None
    /\ watching' = FALSE
    /\ lastEvent' = NoEvent
    /\ groups' = [i \in 1..Len(groups) |->
                     [groups[i] EXCEPT !.observed = FALSE, !.notify = FALSE]]
    /\ UNCHANGED <<listing, wbEmpty, pdfOpened, terminalOpened,
                   enforcementSetUp, styleInjected, pc, runTarget, pendingFinds,
                   pendingOpens, termCalls, ensureCalls, openCalls, openFails,
                   termCreates, termFails, userBudget, outputPane, terminalPane, locksAtOpen, RunnerVars,
                   found, buildTimers, path, listed, laidOut>>

\* a tryBuild timer fires: executeCommand('latex-workshop.build')
TimerFires ==
    /\ buildTimers > 0
    /\ buildTimers' = buildTimers - 1
    /\ lastEvent' = NoEvent
    /\ UNCHANGED <<groups, listing, wbEmpty, pdfOpened, terminalOpened,
                   enforcementSetUp, armedListeners, styleInjected, pdfGuard,
                   termGuard, editorGuard, watching, pc, runTarget, pendingFinds,
                   pendingOpens, termCalls, ensureCalls, openCalls, openFails,
                   termCreates, termFails, userBudget, outputPane, terminalPane, locksAtOpen, RunnerVars,
                   found, disposed, path, listed, laidOut>>

NextDispose ==
    \/ NextActivation
    \/ Dispose
    \/ TimerFires

SpecDispose == InitActivation /\ [][NextDispose]_vars

\* ---- activation, with the host resetting the class of a container --------
\* the host's layout code rewrites the class attribute of a group's
\* container and drops chromeless-pdf-viewer; an observer of the attribute
\* gets a mutation record
HostRemovesMarker(gid) ==
    /\ HasGroup(groups, gid)
    /\ GroupOf(groups, gid).chromeless
    /\ groups' = [i \in 1..Len(groups) |->
                     IF groups[i].id = gid
                     THEN [groups[i] EXCEPT !.chromeless = FALSE,
                                            !.notify = groups[i].observed]
                     ELSE groups[i]]
    /\ lastEvent' = NoEvent
    /\ UNCHANGED <<listing, wbEmpty, pdfOpened, terminalOpened, enforcementSetUp,
                   armedListeners, styleInjected, pdfGuard, termGuard, editorGuard,
                   watching, pc, runTarget, pendingFinds, pendingOpens, termCalls,
                   ensureCalls, openCalls, openFails, termCreates, termFails,
                   userBudget, outputPane, terminalPane, locksAtOpen, RunnerVars, found, disposed,
                   buildTimers, path, listed, laidOut>>

\* the MutationObserver callback of hideGroupChrome: the class is added
\* when it is missing, which is a mutation of the attribute again
ObserverFires(gid) ==
    /\ HasGroup(groups, gid)
    /\ GroupOf(groups, gid).notify
    /\ groups' = [i \in 1..Len(groups) |->
                     IF groups[i].id = gid
                     THEN [groups[i] EXCEPT !.chromeless = TRUE,
                                            !.notify = ~groups[i].chromeless]
                     ELSE groups[i]]
    /\ lastEvent' = NoEvent
    /\ UNCHANGED <<listing, wbEmpty, pdfOpened, terminalOpened, enforcementSetUp,
                   armedListeners, styleInjected, pdfGuard, termGuard, editorGuard,
                   watching, pc, runTarget, pendingFinds, pendingOpens, termCalls,
                   ensureCalls, openCalls, openFails, termCreates, termFails,
                   userBudget, outputPane, terminalPane, locksAtOpen, RunnerVars, found, disposed,
                   buildTimers, path, listed, laidOut>>

NextChrome ==
    \/ NextActivation
    \/ Dispose
    \/ \E gid \in GroupIds(groups) : HostRemovesMarker(gid)
    \/ \E gid \in GroupIds(groups) : ObserverFires(gid)

SpecChrome == InitActivation /\ [][NextChrome]_vars

\* ---- a cold start without the artifact, one user event deeper ------------
InitWatch ==
    /\ InitEngine
    /\ groups = << Group(1, FALSE, << Editor(1, "file") >>) >>
    /\ listing = << File("main", ".tex") >>
    /\ wbEmpty = FALSE
    /\ userBudget = MaxUserEvents + 1
    /\ pc = "init"

NextWatch ==
    \/ RunRestored
    \/ RunRestoreCheck
    \/ RunFindPdfDone
    \/ \E ok \in BOOLEAN : RunWatchTerminalDone(ok)
    \/ RunTexResolved
    \/ \E ok \in BOOLEAN : RunTexOpened(ok)
    \/ \E addPdf \in BOOLEAN : FilesChanged(addPdf)
    \/ FindDone
    \/ \E i \in 1..Len(pendingOpens), res \in Results : OpenLockedDone(i, res)
    \/ \E gid \in GroupIds(groups), kind \in Kinds : UserOpenEditor(gid, kind)
    \/ \E pos \in 1..(Len(groups) + 1) : UserAddGroup(pos)
    \/ \E gid \in GroupIds(groups) : UserToggleLock(gid)

SpecWatch == InitWatch /\ [][NextWatch]_vars

\* ---- a cold start without the artifact, continuations scheduled fairly ---
\* The promises of findPdf and openEditor settle and the event loop runs
\* their continuations: FindDone is weakly fair, and so is the settling of a
\* pending openEditor call. File events and the steps of the user are not.
\* OpenSettles is the step of OpenLockedDone seen on pendingOpens alone, no
\* other action shortens pendingOpens.
OpenSettles ==
    \E i \in 1..Len(pendingOpens) : pendingOpens' = RemoveAt(pendingOpens, i)

InitLive ==
    /\ InitEngine
    /\ groups = << Group(1, FALSE, << Editor(1, "file") >>) >>
    /\ listing = << File("main", ".tex") >>
    /\ wbEmpty = FALSE
    /\ userBudget = MaxFirstEvents
    /\ pc = "init"

SpecLive ==
    /\ InitLive
    /\ [][NextWatch]_vars
    /\ WF_vars(FindDone)
    /\ WF_pendingOpens(OpenSettles)

\* ---- ensureTerminal() called repeatedly ------------------------------------
\* The method on its own: any number of calls, each running up to its await
\* before the next step, createTerminal settling in any order.
InitTerminal ==
    /\ InitEngine
    /\ groups \in InitLayouts
    /\ listing = <<>>
    /\ wbEmpty = FALSE
    /\ userBudget = 0
    /\ pc = "ensureTerminal"

CallEnsureTerminal ==
    /\ pc = "ensureTerminal"
    /\ ensureCalls < MaxTermCalls
    /\ ensureCalls' = ensureCalls + 1
    /\ LET et == ensureTerminalStart(groups)
       IN  /\ groups' = et.groups
           /\ terminalOpened' = et.opened
           /\ IF et.target = None
              THEN UNCHANGED <<termCalls, termCreates>>
              ELSE /\ termCalls' = Append(termCalls, [target |-> et.target])
                   /\ termCreates' = termCreates + 1
    /\ lastEvent' = NoEvent
    /\ UNCHANGED <<listing, wbEmpty, pdfOpened, enforcementSetUp, armedListeners, styleInjected,
                   pdfGuard, termGuard, editorGuard, watching, pc, runTarget,
                   pendingFinds, pendingOpens, openCalls, openFails, termFails,
                   userBudget, found, disposed, buildTimers, path, listed, laidOut>>
    /\ UNCHANGED outputPane
    /\ UNCHANGED locksAtOpen
    /\ UNCHANGED RunnerVars
    /\ terminalPane' = AdoptedTerminal(groups)

TerminalSettled(i, ok) ==
    /\ i \in 1..Len(termCalls)
    /\ LET ef == ensureTerminalFinish(groups, termCalls[i].target, ok)
       IN  /\ groups' = ef.groups
           /\ terminalOpened' = ef.opened
    /\ termCalls' = RemoveAt(termCalls, i)
    /\ termFails' = IF ok THEN termFails ELSE termFails + 1
    /\ lastEvent' = Event(IF ok THEN "terminalCreated" ELSE "terminalFailed",
                          termCalls[i].target, None, "none", None)
    /\ UNCHANGED <<listing, wbEmpty, pdfOpened, enforcementSetUp, armedListeners, styleInjected,
                   pdfGuard, termGuard, editorGuard, watching, pc, runTarget,
                   pendingFinds, pendingOpens, ensureCalls, openCalls, openFails,
                   termCreates, userBudget, found, disposed, buildTimers, path, listed, laidOut>>
    /\ UNCHANGED outputPane
    /\ UNCHANGED locksAtOpen
    /\ UNCHANGED RunnerVars
    /\ terminalPane' = IF ok THEN termCalls[i].target ELSE terminalPane

NextTerminal ==
    \/ CallEnsureTerminal
    \/ \E i \in 1..Len(termCalls), ok \in BOOLEAN : TerminalSettled(i, ok)

SpecTerminal == InitTerminal /\ [][NextTerminal]_vars

\* ---- findPdf() on every listing ------------------------------------------
Stems == {"main", "report", "other"}

Exts == {".pdf", ".tex", ".txt"}

Entries == {File(st, ex) : st \in Stems, ex \in Exts}
             \cup {Dir("main", ".pdf"), Dir("report", ".pdf")}

\* a folder lists no name twice
Listings ==
    {L \in UNION {[1..n -> Entries] : n \in 0..MaxListing} :
        \A i, j \in 1..Len(L) : NameOf(L[i]) = NameOf(L[j]) => i = j}

InitFind ==
    /\ InitEngine
    /\ groups = << Group(1, FALSE, <<>>) >>
    /\ listing \in Listings
    /\ wbEmpty = FALSE
    /\ userBudget = 0
    /\ pc = "findPdfCall"

\* the outcomes of fileService.resolve(rootUri): a stat with children, a
\* stat without children, a rejection
ResolveOutcomes == {"children", "nochildren", "fail"}

\* a findPdf without its try/catch
findPdfOutcomeUncaught(outcome, L) ==
    IF outcome = "children" THEN [result |-> findPdf(L), raised |-> FALSE]
    ELSE [result |-> <<>>, raised |-> outcome = "fail"]

\* findPdf as a whole: the rules on the children, undefined for a stat
\* without children, undefined from the catch block for a rejection
findPdfOutcome(outcome, L) ==
    IF outcome = "children" THEN [result |-> findPdf(L), raised |-> FALSE]
    ELSE [result |-> <<>>, raised |-> FALSE]

CallFindPdf(outcome) ==
    /\ pc = "findPdfCall"
    /\ found' = findPdfOutcome(outcome, listing).result
    /\ pc' = IF findPdfOutcome(outcome, listing).raised THEN "findPdfThrew"
             ELSE IF outcome = "children" THEN "findPdfDone"
             ELSE IF outcome = "nochildren" THEN "findPdfNoChildren"
             ELSE "findPdfCaught"
    /\ UNCHANGED <<groups, listing, wbEmpty, pdfOpened, terminalOpened,
                   enforcementSetUp, armedListeners, styleInjected, pdfGuard, termGuard,
                   editorGuard, watching, runTarget, pendingFinds, pendingOpens,
                   termCalls, ensureCalls, openCalls, openFails, termCreates,
                   termFails, lastEvent, userBudget, disposed, buildTimers,
                   path, listed, laidOut>>
    /\ UNCHANGED outputPane
    /\ UNCHANGED terminalPane
    /\ UNCHANGED locksAtOpen
    /\ UNCHANGED RunnerVars

NextFind == \E outcome \in ResolveOutcomes : CallFindPdf(outcome)

SpecFind == InitFind /\ [][NextFind]_vars

\* ---- findEditorGroup() on every list of groups ---------------------------
\* group lists of every length and lock pattern, ids in either order
PaneLists ==
    {[i \in 1..n |-> Group(IF rev THEN n + 1 - i ELSE i, locks[i], <<>>)] :
        <<n, locks, rev>> \in
            UNION {{<<m, l, r>> : l \in [1..m -> BOOLEAN], r \in BOOLEAN} :
                      m \in 1..MaxGroups}}

InitPanes ==
    /\ InitEngine
    /\ groups \in PaneLists
    /\ listing = <<>>
    /\ wbEmpty = FALSE
    /\ userBudget = 0
    /\ pc = "findGroupCall"

CallFindEditorGroup ==
    /\ pc = "findGroupCall"
    /\ found' = << findEditorGroup(groups) >>
    /\ pc' = "findGroupDone"
    /\ UNCHANGED <<groups, listing, wbEmpty, pdfOpened, terminalOpened,
                   enforcementSetUp, armedListeners, styleInjected, pdfGuard, termGuard,
                   editorGuard, watching, runTarget, pendingFinds, pendingOpens,
                   termCalls, ensureCalls, openCalls, openFails, termCreates,
                   termFails, lastEvent, userBudget, disposed, buildTimers,
                   path, listed, laidOut>>
    /\ UNCHANGED outputPane
    /\ UNCHANGED terminalPane
    /\ UNCHANGED locksAtOpen
    /\ UNCHANGED RunnerVars

NextPanes == CallFindEditorGroup

SpecPanes == InitPanes /\ [][NextPanes]_vars

\* ---- the dashboard runner --------------------------------------------------
\* FolioRunnerContribution shows the dashboard in a window without a folder
\* and reopens it when it is closed.  The dashboard item is an editor of kind
\* "dashboard" in the pane list the layout engine works on.
DashboardStartup == "latexProjectsDashboard"

StartupSettings == {DashboardStartup, "none"}

AllParts == {"activitybar", "sidebar", "panel", "auxiliarybar", "statusbar"}

\* the parts restoreUI shows again
RestoredParts == {"activitybar", "sidebar", "statusbar"}

MaxHideTimers == 2

\* the rest of the engine's state, for the steps of the runner
EngineRest ==
    <<listing, pdfOpened, terminalOpened, enforcementSetUp, armedListeners,
      styleInjected, pdfGuard, termGuard, editorGuard, watching, pc, runTarget,
      pendingFinds, pendingOpens, termCalls, ensureCalls, openCalls, openFails,
      termCreates, termFails, lastEvent, outputPane, terminalPane, locksAtOpen,
      found, disposed, buildTimers, path, listed, laidOut>>

\* configurationService.getValue('workbench.startupEditor'): with a folder
\* open the value setupFocusedMode wrote to the workspace settings (run()
\* calls it right after injectFolioStylesheet), else the setting outside
\* the workspace
startupEditor(empty) ==
    IF ~empty /\ styleInjected THEN "none" ELSE startupSetting

DashboardIn(g) == {g.editors[i].id : i \in {k \in 1..Len(g.editors) : g.editors[k].kind = "dashboard"}}

DashboardPresent(G) == \E i \in 1..Len(G) : DashboardIn(G[i]) # {}

\* showDashboard up to its await of openEditor
ShowDashboard ==
    /\ dashboardActive' = TRUE
    /\ hiddenParts' = AllParts
    /\ pendingShows' = pendingShows + 1

\* restoreUI
RestoreUI ==
    /\ dashboardActive' = FALSE
    /\ hiddenParts' = IF dashboardActive THEN hiddenParts \ RestoredParts ELSE hiddenParts

\* a handleDashboardClosed that starts no timer
handleDashboardClosedNoTimer(empty) == reopenTimers

\* handleDashboardClosed: the pending timers afterwards
handleDashboardClosed(empty) ==
    IF empty /\ startupEditor(empty) = DashboardStartup
    THEN reopenTimers + 1 ELSE reopenTimers

\* the listeners of the runner when the dashboard item has been closed and
\* G is the pane list afterwards: onDidCloseEditor, then handleEditorChange
\* with another editor active if there is one
DashboardClosed(G) ==
    /\ reopenTimers' = handleDashboardClosed(wbEmpty)
    /\ IF EditorCount(G) > 0 THEN RestoreUI
       ELSE UNCHANGED <<dashboardActive, hiddenParts>>

\* run() of the runner at the Restored phase
RunnerRun ==
    /\ runnerPc = "init"
    /\ runnerPc' = "done"
    /\ IF startupEditor(wbEmpty) = DashboardStartup /\ wbEmpty
       THEN ShowDashboard
       ELSE UNCHANGED <<dashboardActive, hiddenParts, pendingShows>>
    /\ runnerEvent' = "run"
    /\ UNCHANGED <<groups, wbEmpty, userBudget, EngineRest, reopenTimers, hideTimers,
                   startupSetting>>

\* openEditor of showDashboard resolved: the dashboard is open in an
\* unlocked group (an open dashboard is shown again), the group's guards
\* have run, handleEditorChange has seen the dashboard active and the 100 ms
\* timer is started.  The engine's active-editor listener has called
\* closeEditors, which closes after its confirmation check (EngineClosesDashboard).
DashboardOpened(gid) ==
    /\ pendingShows > 0
    /\ pendingShows' = pendingShows - 1
    /\ gid \in GroupIds(groups)
    /\ ~GroupOf(groups, gid).locked
    /\ groups' = IF DashboardPresent(groups) THEN groups
                 ELSE OnEditorOpen(AddEditor(groups, gid, Editor(FreshEditor(groups), "dashboard")),
                                   gid, Editor(FreshEditor(groups), "dashboard"), MaxCascade)
    /\ dashboardActive' = TRUE
    /\ hiddenParts' = IF dashboardActive THEN hiddenParts ELSE AllParts
    /\ hideTimers' = Min({hideTimers + 1, MaxHideTimers})
    /\ runnerEvent' = "opened"
    /\ UNCHANGED <<wbEmpty, userBudget, EngineRest, reopenTimers, runnerPc, startupSetting>>

\* the closeEditors calls of the engine's closeUnwantedEditors (its
\* onDidActiveEditorChange listener) take effect on the dashboard
EngineClosesDashboard ==
    /\ armedListeners
    /\ DashboardPresent(groups)
    /\ ~DashboardPresent(closeUnwantedEditors(groups))
    /\ groups' = closeUnwantedEditors(groups)
    /\ DashboardClosed(closeUnwantedEditors(groups))
    /\ runnerEvent' = "closedByEngine"
    /\ UNCHANGED <<wbEmpty, userBudget, EngineRest, pendingShows, hideTimers, runnerPc,
                   startupSetting>>

\* the user closes the dashboard item
UserClosesDashboard(gid) ==
    /\ userBudget > 0
    /\ userBudget' = userBudget - 1
    /\ gid \in GroupIds(groups)
    /\ DashboardIn(GroupOf(groups, gid)) # {}
    /\ ~GroupOf(groups, gid).locked
    /\ groups' = closeEditors(groups, gid, DashboardIn(GroupOf(groups, gid)))
    /\ DashboardClosed(closeEditors(groups, gid, DashboardIn(GroupOf(groups, gid))))
    /\ runnerEvent' = "closed"
    /\ UNCHANGED <<wbEmpty, EngineRest, pendingShows, hideTimers, runnerPc, startupSetting>>

\* the 50 ms timer of handleDashboardClosed fires
ReopenTimerFires ==
    /\ reopenTimers > 0
    /\ reopenTimers' = reopenTimers - 1
    /\ IF wbEmpty THEN ShowDashboard
       ELSE UNCHANGED <<dashboardActive, hiddenParts, pendingShows>>
    /\ runnerEvent' = "timer"
    /\ UNCHANGED <<groups, wbEmpty, userBudget, EngineRest, hideTimers, runnerPc,
                   startupSetting>>

\* the 100 ms timer of showDashboard fires
HideTimerFires ==
    /\ hideTimers > 0
    /\ hideTimers' = hideTimers - 1
    /\ hiddenParts' = IF dashboardActive THEN AllParts ELSE hiddenParts
    /\ UNCHANGED <<groups, wbEmpty, userBudget, EngineRest, dashboardActive, pendingShows,
                   reopenTimers, runnerPc, startupSetting, runnerEvent>>

\* onDidChangeWorkbenchState, once both run() calls are past the Restored
\* phase: the folder is closed or opened in the same window
WorkbenchStateChanges ==
    /\ pc = "done"
    /\ runnerPc = "done"
    /\ userBudget > 0
    /\ userBudget' = userBudget - 1
    /\ wbEmpty' = ~wbEmpty
    /\ IF wbEmpty
       THEN RestoreUI /\ UNCHANGED pendingShows
       ELSE IF startupEditor(TRUE) = DashboardStartup THEN ShowDashboard
            ELSE UNCHANGED <<dashboardActive, hiddenParts, pendingShows>>
    /\ runnerEvent' = "workbenchState"
    /\ UNCHANGED <<groups, EngineRest, reopenTimers, hideTimers, runnerPc, startupSetting>>

\* ---- the two contributions in one window ---------------------------------
\* A window without a folder, or a folder with main.tex with or without
\* main.pdf; the dashboard is the startup editor outside workspace settings
\* or is not.  No file event arrives.
InitRunner ==
    /\ EngineConstructed
    /\ RunnerConstructed
    /\ startupSetting \in StartupSettings
    /\ wbEmpty \in BOOLEAN
    /\ groups \in { << Group(1, FALSE, <<>>) >>, << Group(1, FALSE, << Editor(1, "file") >>) >> }
    /\ listing \in { <<>>, << File("main", ".tex") >>,
                     << File("main", ".tex"), File("main", ".pdf") >> }
    /\ wbEmpty => listing = <<>>
    /\ ~wbEmpty => listing # <<>>
    /\ userBudget = MaxUserEvents
    /\ pc = "init"

NextRunner ==
    \/ RunRestored
    \/ RunRestoreCheck
    \/ RunFindPdfDone
    \/ \E ok \in BOOLEAN : RunWatchTerminalDone(ok)
    \/ RunTexResolved
    \/ \E ok \in BOOLEAN : RunTexOpened(ok)
    \/ \E res \in Results, side \in SideGroups(groups) : RunOpenPdfDone(res, side)
    \/ \E ok \in BOOLEAN : RunFoundTerminalDone(ok)
    \/ RunnerRun
    \/ \E gid \in GroupIds(groups) : DashboardOpened(gid)
    \/ EngineClosesDashboard
    \/ \E gid \in GroupIds(groups) : UserClosesDashboard(gid)
    \/ ReopenTimerFires
    \/ HideTimerFires
    \/ WorkbenchStateChanges

\* the event loop runs the timers that are due and the continuations of the
\* calls that have settled
ShowSettles == \E gid \in GroupIds(groups) : DashboardOpened(gid)

SpecRunner ==
    /\ InitRunner
    /\ [][NextRunner]_vars
    /\ WF_vars(ShowSettles)
    /\ WF_vars(EngineClosesDashboard)
    /\ WF_vars(ReopenTimerFires)
    /\ WF_vars(HideTimerFires)

\* ---- properties ------------------------------------------------------------
AnyFilesChanged == \E addPdf \in BOOLEAN : FilesChanged(addPdf)

\* C1: as long as no open of the artifact failed, openEditor was called for
\* it at most once, whatever file events and discovery steps interleaved; and
\* a file event handled with pdfOpened set starts no discovery and no open.
OpenAtMostOnce ==
    /\ [](openFails = 0 => openCalls <= 1)
    /\ [][(pdfOpened /\ AnyFilesChanged) =>
            (pendingFinds' = pendingFinds /\ openCalls' = openCalls)]_vars

\* a second discovery is still in flight while the first one's open is made
OpenRaced == openCalls = 1 /\ openFails = 0 /\ pdfOpened /\ pendingFinds > 0

Hosts(gid, k) == gid # None /\ HasGroup(groups, gid) /\ HasKind(GroupOf(groups, gid), k)

TerminalPanes == {i \in 1..Len(groups) : HasKind(groups[i], "terminal")}

\* C2: with the artifact open in its pane, whichever way activation went,
\* the state right after an unlock of that pane by the user has the pane
\* locked again.
OutputPaneRelocked ==
    (/\ lastEvent.type = "unlock"
     /\ lastEvent.group = outputPane
     /\ pdfOpened
     /\ Hosts(outputPane, "pdf"))
    => GroupOf(groups, outputPane).locked

\* C3: with enforcement armed, the state right after a pane was added and
\* the pane-added listener ran has at most three panes.
AtMostThreePanes ==
    (enforcementSetUp /\ lastEvent.type = "addGroup") => Len(groups) <= 3

\* C4: the pane an added pane was merged into is neither the pane that hosts
\* the artifact nor the pane that hosts the terminal.
MergeTargetIsSource ==
    (lastEvent.type = "addGroup" /\ lastEvent.target # None)
    => /\ ~(lastEvent.target = outputPane /\ Hosts(outputPane, "pdf"))
       /\ ~(lastEvent.target = terminalPane /\ Hosts(terminalPane, "terminal"))

\* C5: while no creation failed, createTerminal was called at most once; when
\* every call made has settled, exactly one pane hosts a terminal and the
\* latch is set; and a call made while a pane hosts a terminal creates no
\* terminal and adds no pane.
TerminalProvisionedOnce ==
    /\ [](termFails = 0 => termCreates <= 1)
    /\ []((termFails = 0 /\ ensureCalls >= 1 /\ termCalls = <<>>)
            => (terminalOpened /\ Cardinality(TerminalPanes) = 1))
    /\ [][(findTerminalGroup(groups) # None /\ CallEnsureTerminal)
            => (termCreates' = termCreates /\ GroupIds(groups') = GroupIds(groups))]_vars

\* every call was made, the later ones while the first was at its await, and
\* the one terminal created is in its pane
TerminalCallsOverlapped ==
    /\ ensureCalls = MaxTermCalls
    /\ termCreates = 1
    /\ termFails = 0
    /\ termCalls = <<>>
    /\ lastEvent.type = "terminalCreated"
    /\ Hosts(terminalPane, "terminal")

\* C6: findPdf returns main.pdf when a file of that name is listed; else a
\* .pdf file with the basename of a listed .tex file when there is one; else
\* the first .pdf file of the listing; else nothing.
FindPdfPriority ==
    pc = "findPdfDone" =>
        LET files == {i \in 1..Len(listing) : ~listing[i].dir}
            pdfs == {i \in files : listing[i].ext = ".pdf"}
            texs == {i \in files : listing[i].ext = ".tex"}
            matched == {i \in pdfs : \E j \in texs : listing[j].stem = listing[i].stem}
        IN  IF \E i \in pdfs : listing[i].stem = "main"
            THEN found = << <<"main", ".pdf">> >>
            ELSE IF matched # {}
            THEN \E i \in matched : found = << NameOf(listing[i]) >>
            ELSE IF pdfs # {}
            THEN found = << NameOf(listing[Min(pdfs)]) >>
            ELSE found = <<>>

\* no main.pdf, and the .pdf file of a .tex file is listed after another one
TexNamedPdfFound ==
    /\ pc = "findPdfDone"
    /\ listing = << File("other", ".pdf"), File("report", ".pdf"), File("report", ".tex") >>
    /\ found = << <<"report", ".pdf">> >>

\* C7: with enforcement armed, the state right after a file was opened in
\* the source pane has exactly that file in the pane.
SingleItemInSource ==
    (/\ enforcementSetUp
     /\ lastEvent.type = "open"
     /\ lastEvent.kind = "file"
     /\ lastEvent.group = findEditorGroup(groups))
    => /\ Len(GroupOf(groups, lastEvent.group).editors) = 1
       /\ GroupOf(groups, lastEvent.group).editors[1].id = lastEvent.editor

\* C8: with enforcement armed, the state right after an item of an unwanted
\* kind was opened in a pane has the item in no pane.
UnwantedClosed ==
    (enforcementSetUp /\ lastEvent.type = "open" /\ lastEvent.kind = "unwanted")
    => lastEvent.editor \notin AllEditorIds(groups)

\* C9: a step in which an open of the artifact fails leaves pdfOpened false,
\* and after a failure a file event with the artifact in the folder starts a
\* discovery, which is what leads to the next open.
RetryAfterFailure ==
    /\ [][openFails' > openFails => ~pdfOpened']_vars
    /\ [][(/\ openFails > 0
           /\ ~pdfOpened
           /\ AnyFilesChanged
           /\ findPdf(listing') # <<>>)
          => pendingFinds' = pendingFinds + 1]_vars

\* C10: the state right after createTerminal failed has terminalOpened false
\* and does not have the pane the call added.
FailedTerminalLeavesNoPane ==
    lastEvent.type = "terminalFailed"
    => (~terminalOpened /\ ~HasGroup(groups, lastEvent.group))

\* C11: when run() has returned, with every createTerminal and openEditor
\* call having succeeded, there are at most three panes.
ActivationLeavesThreePanes ==
    (pc = "done" /\ termFails = 0 /\ openFails = 0) => Len(groups) <= 3

PdfPanes == {i \in 1..Len(groups) : HasKind(groups[i], "pdf")}

\* C12: with enforcement armed, after every event of the user and the
\* listeners' reactions to it, at most one pane holds a .pdf item.
AtMostOnePdfPane ==
    (pc = "done" /\ enforcementSetUp) => Cardinality(PdfPanes) <= 1

\* C13: when run() has returned, and after every later event of the user,
\* at most one pane holds a terminal item.
AtMostOneTerminalPane ==
    pc = "done" => Cardinality(TerminalPanes) <= 1

\* C14: when run() has returned with the artifact open in its pane, and
\* after every later event of the user (the removal of a sticky marker
\* included), every item of that pane is sticky.
OutputItemsSticky ==
    (pc = "done" /\ pdfOpened /\ Hosts(outputPane, "pdf"))
    => \A i \in 1..Len(GroupOf(groups, outputPane).editors) :
           GroupOf(groups, outputPane).editors[i].sticky

TerminalItemsSticky ==
    (pc = "done" /\ Hosts(terminalPane, "terminal"))
    => \A i \in 1..Len(GroupOf(groups, terminalPane).editors) :
           GroupOf(groups, terminalPane).editors[i].sticky

\* C17: a step taken after dispose() resumes no step of run(), makes no
\* openEditor or createTerminal call, changes no group, registers no listener,
\* starts no discovery and fires no build timer.
QuietAfterDispose ==
    [][disposed =>
         /\ pc' = pc
         /\ groups' = groups
         /\ openCalls' = openCalls
         /\ termCreates' = termCreates
         /\ pendingFinds' = pendingFinds
         /\ watching' = watching
         /\ armedListeners' = armedListeners
         /\ buildTimers' = buildTimers]_vars

RestoreSkipsDiscovery ==
    path = "restore" =>
        /\ pdfOpened
        /\ ensureCalls = 1
        /\ ~listed
        /\ openCalls = 0
        /\ pendingOpens = <<>>
        /\ pendingFinds = 0
        /\ ~watching
        /\ ~laidOut
        /\ pc \in {"restoreTerminal", "done"}
        /\ pc = "done" =>
               /\ enforcementSetUp
               /\ armedListeners
               /\ outputPane \in GroupIds(groups)
               /\ GroupOf(groups, outputPane).locked
               /\ termFails = 0 => Cardinality(TerminalPanes) >= 1

\* C19 witness: a restored window settled with its terminal created
RestoreSettled ==
    /\ path = "restore"
    /\ pc = "done"
    /\ termCreates = 1
    /\ Hosts(outputPane, "pdf")

\* the file listener has called findPdf, the artifact is in the folder and
\* the latch is unset
ArtifactEventDelivered ==
    /\ ListenerRuns
    /\ pendingFinds > 0
    /\ findPdf(listing) # <<>>

\* the artifact is open in a locked pane, sticky, and the latch is set
ArtifactOpenedLockedSticky ==
    /\ pdfOpened
    /\ Hosts(outputPane, "pdf")
    /\ GroupOf(groups, outputPane).locked
    /\ \E i \in 1..Len(GroupOf(groups, outputPane).editors) :
           /\ GroupOf(groups, outputPane).editors[i].kind = "pdf"
           /\ GroupOf(groups, outputPane).editors[i].sticky

\* C20: in a cold start without the artifact the engine watches and opens
\* nothing while no artifact exists; once the artifact exists and a file
\* event reaches the listener, the artifact is eventually open in a locked
\* pane, sticky, with pdfOpened set.
WatchOpensArtifact ==
    /\ [](findPdf(listing) = <<>> =>
            (~pdfOpened /\ openCalls = 0 /\ pendingOpens = <<>>))
    /\ ArtifactEventDelivered ~> ArtifactOpenedLockedSticky

\* C20 witness: the watching engine has opened the artifact
ArtifactOpenedWhileWatching ==
    /\ watching
    /\ openFails = 0
    /\ ArtifactOpenedLockedSticky

\* the panes that hold the editor with this id
PanesOf(eid) == {groups[i].id : i \in {k \in 1..Len(groups) : eid \in EditorIds(groups[k])}}

\* C21: with the PDF guard registered on the output pane, right after a
\* non-.pdf item is opened in that pane and the listeners have reacted, the
\* pane holds only .pdf items and the opened item is in the source pane
\* (findEditorGroup) and in no other pane.
NonPdfLeavesOutputPane ==
    (/\ lastEvent.type = "open"
     /\ lastEvent.kind \notin {"pdf", "unwanted"}
     /\ armedListeners
     /\ pdfGuard # None
     /\ lastEvent.group = pdfGuard)
    => /\ \A i \in 1..Len(GroupOf(groups, pdfGuard).editors) :
              IsPdfEditor(GroupOf(groups, pdfGuard).editors[i])
       /\ PanesOf(lastEvent.editor) = {findEditorGroup(groups)}

\* C21 witness: a file opened in the guarded output pane now sits in the
\* source pane alone
NonPdfMovedToSource ==
    /\ lastEvent.type = "open"
    /\ lastEvent.kind = "file"
    /\ armedListeners
    /\ pdfGuard # None
    /\ lastEvent.group = pdfGuard
    /\ findEditorGroup(groups) # pdfGuard
    /\ PanesOf(lastEvent.editor) = {findEditorGroup(groups)}

\* C22: with the terminal guard registered, right after a non-terminal item
\* is opened in the terminal pane and the listeners have reacted, the pane
\* holds only terminal items and the opened item is in the source pane
\* (findEditorGroup).
NonTerminalLeavesTerminalPane ==
    (/\ lastEvent.type = "open"
     /\ lastEvent.kind \notin {"terminal", "unwanted"}
     /\ armedListeners
     /\ termGuard # None
     /\ lastEvent.group = termGuard)
    => /\ \A i \in 1..Len(GroupOf(groups, termGuard).editors) :
              IsTerminalEditor(GroupOf(groups, termGuard).editors[i])
       /\ findEditorGroup(groups) \in PanesOf(lastEvent.editor)

\* C22 witness: a file opened in the guarded terminal pane now sits in the
\* source pane alone
NonTerminalMovedToSource ==
    /\ lastEvent.type = "open"
    /\ lastEvent.kind = "file"
    /\ armedListeners
    /\ termGuard # None
    /\ lastEvent.group = termGuard
    /\ findEditorGroup(groups) # termGuard
    /\ PanesOf(lastEvent.editor) = {findEditorGroup(groups)}

\* a step of run() that calls ensureTerminal or createTerminal
ProvisionStep == ensureCalls' > ensureCalls \/ termCreates' > termCreates

\* C23 as stated: in every cold start the folder is listed after style
\* injection and setupFocusedMode, the terminal is provisioned after the
\* listing and before applyLayout is called, and the listeners are armed
\* after both.
ColdStartOrder ==
    [][path' = "cold" =>
          /\ (listed' /\ ~listed) => (styleInjected /\ pc = "focusedMode")
          /\ ProvisionStep => listed
          /\ (laidOut' /\ ~laidOut) => (ensureCalls' >= 1 \/ termCreates >= 1)
          /\ (armedListeners' /\ ~armedListeners)
                => (laidOut' /\ (ensureCalls' >= 1 \/ termCreates' >= 1))]_vars

\* C23 amended: the order holds when discovery finds the artifact
\* (openPdfViewer); when it finds none (watchForPdf), applyLayout is called
\* before the terminal is created and the file subscription follows both;
\* on either path the listeners are armed after the terminal step and
\* applyLayout.
ColdStartOrderByPath ==
    [][path' = "cold" =>
          /\ (listed' /\ ~listed) => (styleInjected /\ pc = "focusedMode")
          /\ ProvisionStep => listed
          /\ (laidOut' /\ ~laidOut /\ pc # "findPdf") => ensureCalls' >= 1
          /\ (laidOut' /\ ~laidOut /\ pc = "findPdf")
                => (termCreates = 0 /\ ensureCalls = 0 /\ ~watching)
          /\ (watching' /\ ~watching) => (laidOut /\ termCreates >= 1)
          /\ (armedListeners' /\ ~armedListeners)
                => (laidOut' /\ (ensureCalls' >= 1 \/ termCreates' >= 1))]_vars

\* C23 witness: a cold start without the artifact has settled, laid out,
\* with its terminal created, subscribed and armed
WatchStartSettled ==
    /\ path = "cold"
    /\ pc = "done"
    /\ laidOut
    /\ termCreates = 1
    /\ watching
    /\ armedListeners

\* C24: once the enforcement latch is set it stays set, and no later call
\* of setupEnforcement, from run() or from openPdfInLockedGroup, registers
\* again: the listeners and the groups their closures hold stay as the first
\* call left them.
EnforcementArmedOnce ==
    [][enforcementSetUp =>
          /\ enforcementSetUp'
          /\ armedListeners' = armedListeners
          /\ pdfGuard' = pdfGuard
          /\ termGuard' = termGuard
          /\ editorGuard' = editorGuard]_vars

\* C24 witness: setupEnforcement was called by run() and by
\* openPdfInLockedGroup, the call that came second returned at the latch
SecondArmingReturned ==
    /\ pc = "done"
    /\ watching
    /\ enforcementSetUp
    /\ Hosts(outputPane, "pdf")
    /\ pdfGuard = None

\* C25: with the listeners armed, the guards act on the panes that hold the
\* roles when the event happens: an unlock of the pane that now holds the
\* .pdf item or the terminal is reverted, and a file opened in the pane that
\* is now the source pane (findEditorGroup) is the only item of that pane.
GuardsFollowRoles ==
    (armedListeners /\ pc = "done") =>
        /\ (/\ lastEvent.type = "unlock"
            /\ lastEvent.group \in {findPdfGroup(groups), findTerminalGroup(groups)})
           => GroupOf(groups, lastEvent.group).locked
        /\ (/\ lastEvent.type = "open"
            /\ lastEvent.kind = "file"
            /\ PanesOf(lastEvent.editor) = {findEditorGroup(groups)})
           => EditorIds(GroupOf(groups, findEditorGroup(groups))) = {lastEvent.editor}

\* C25 witness: the artifact was opened after arming, and its pane, which no
\* guard holds, has been unlocked
StaleGuardUnlock ==
    /\ armedListeners
    /\ pc = "done"
    /\ lastEvent.type = "unlock"
    /\ lastEvent.group = findPdfGroup(groups)
    /\ pdfGuard # findPdfGroup(groups)

\* C26: a step in which an event of the user is handled by the armed
\* listeners (re-lock, re-stick, move, close, merge) leaves pdfOpened,
\* terminalOpened and enforcementSetUp as they were.
HandlersKeepLatches ==
    [][(armedListeners /\ lastEvent'.type # "none") =>
          /\ pdfOpened' = pdfOpened
          /\ terminalOpened' = terminalOpened
          /\ enforcementSetUp' = enforcementSetUp]_vars

\* C26 witness: the PDF guard has re-locked its pane after an unlock and
\* the three latches are set
RelockedWithLatchesSet ==
    /\ lastEvent.type = "unlock"
    /\ lastEvent.group = pdfGuard
    /\ GroupOf(groups, pdfGuard).locked
    /\ pdfOpened
    /\ terminalOpened
    /\ enforcementSetUp

\* the indexes of the listed .pdf files named after a listed .tex file
MatchedPdfs ==
    {i \in 1..Len(listing) :
        /\ ~listing[i].dir
        /\ listing[i].ext = ".pdf"
        /\ \E j \in 1..Len(listing) :
               ~listing[j].dir /\ listing[j].ext = ".tex" /\ listing[j].stem = listing[i].stem}

\* the indexes of the listed .tex files that have a listed .pdf of their name
MatchedTexs ==
    {j \in 1..Len(listing) :
        /\ ~listing[j].dir
        /\ listing[j].ext = ".tex"
        /\ \E i \in MatchedPdfs : listing[i].stem = listing[j].stem}

NoMainPdf == \A i \in 1..Len(listing) : listing[i].dir \/ NameOf(listing[i]) # <<"main", ".pdf">>

\* C27 as stated: without main.pdf and with several .pdf files named after
\* .tex files, findPdf returns the one of these .pdf files that is listed
\* first.
FirstListedMatchingPdf ==
    (pc = "findPdfDone" /\ NoMainPdf /\ Cardinality(MatchedPdfs) >= 2)
        => found = << NameOf(listing[Min(MatchedPdfs)]) >>

\* C27 amended: findPdf returns the .pdf file named after the first listed
\* .tex file that has one.
PdfOfFirstListedTex ==
    (pc = "findPdfDone" /\ NoMainPdf /\ Cardinality(MatchedPdfs) >= 2)
        => found = << <<listing[Min(MatchedTexs)].stem, ".pdf">> >>

\* C27 witness: two .tex files have their .pdf, listed in the other order
TwoMatchesCrossed ==
    /\ pc = "findPdfDone"
    /\ NoMainPdf
    /\ Cardinality(MatchedPdfs) >= 2
    /\ listing[Min(MatchedPdfs)].stem # listing[Min(MatchedTexs)].stem
    /\ found = << <<listing[Min(MatchedTexs)].stem, ".pdf">> >>

\* C28: findEditorGroup returns the first unlocked group of the list, the
\* first group of the list when every group is locked, and a group whenever
\* the list is not empty.
SourcePaneIsFirstUnlocked ==
    pc = "findGroupDone" =>
        /\ found # << None >>
        /\ \E i \in 1..Len(groups) :
              /\ found = << groups[i].id >>
              /\ \A j \in 1..(i - 1) : groups[j].locked
              /\ groups[i].locked => (i = 1 /\ \A j \in 1..Len(groups) : groups[j].locked)

\* C28 witness: every group is locked and the first one is returned
AllLockedFirstReturned ==
    /\ pc = "findGroupDone"
    /\ Len(groups) >= 2
    /\ \A j \in 1..Len(groups) : groups[j].locked
    /\ found = << groups[1].id >>

\* C29: until teardown every group whose container got the class has the
\* observer; when the host has removed the class the observer's callback is
\* pending, and the step of the callback leaves the class present.
ChromeMarkerRestored ==
    /\ [](~disposed =>
            \A i \in 1..Len(groups) :
                /\ groups[i].chromeless => groups[i].observed
                /\ (groups[i].observed /\ ~groups[i].chromeless) => groups[i].notify)
    /\ [][\A gid \in GroupIds(groups) :
            ObserverFires(gid) => GroupOf(groups', gid).chromeless]_vars

\* C29 witness: the observer has put the class back on a container the host
\* took it from (the re-adding left a mutation record of its own)
MarkerPutBack ==
    /\ ~disposed
    /\ \E i \in 1..Len(groups) :
           groups[i].observed /\ groups[i].chromeless /\ groups[i].notify

\* the indexes of the listed files whose name ends in .pdf
ListedPdfs == {i \in 1..Len(listing) : ~listing[i].dir /\ listing[i].ext = ".pdf"}

\* C30: findPdf never raises; for a stat with children it returns a result
\* exactly when a file of the listing has a name ending in .pdf, and the
\* result is then such a file; for a stat without children or a rejected
\* resolve it returns undefined.
FindPdfTotal ==
    /\ pc # "findPdfThrew"
    /\ pc = "findPdfDone" =>
          /\ found # <<>> <=> ListedPdfs # {}
          /\ found # <<>> => \E i \in ListedPdfs : found = << NameOf(listing[i]) >>
    /\ pc \in {"findPdfNoChildren", "findPdfCaught"} => found = <<>>

\* C30 witness: resolve rejected for a folder that holds a .pdf file and
\* findPdf returned undefined
RejectedResolveYieldsNone ==
    /\ pc = "findPdfCaught"
    /\ ListedPdfs # {}
    /\ found = <<>>

\* no call of the engine is in flight: run() has returned and no findPdf or
\* openEditor of the file listener is pending
EngineSettled == pc = "done" /\ pendingFinds = 0 /\ pendingOpens = <<>>

\* C31: in every settled state pdfOpened is set exactly when the pane the
\* engine detected or opened the artifact in holds a .pdf item.
LatchMatchesArtifact ==
    EngineSettled => (pdfOpened <=> Hosts(outputPane, "pdf"))

\* C31 witness: settled with the latch set and no .pdf item in any pane
LatchSetWithoutArtifact ==
    /\ EngineSettled
    /\ pdfOpened
    /\ PdfPanes = {}

\* C32: when the openEditor call of openPdfInLockedGroup is rejected, every
\* pane that was there at the start of the attempt has the lock state it had
\* then; the placeholder pane that was unlocked for the open is locked again.
FailedOpenRestoresLocks ==
    [][(/\ Len(pendingOpens) = 1
        /\ pendingOpens' = <<>>
        /\ openFails' = openFails + 1)
       => \A i \in 1..Len(groups') :
              groups'[i].id \in locksAtOpen[1].ids
              => (groups'[i].locked <=> groups'[i].id \in locksAtOpen[1].locked)]_vars

\* C32 witness: an open attempt in the locked placeholder pane has failed
\* and the pane is unlocked
PlaceholderLeftUnlocked ==
    /\ watching
    /\ openFails = 1
    /\ ~pdfOpened
    /\ pendingOpens = <<>>
    /\ Len(groups) = 3
    /\ groups[3].editors = <<>>
    /\ ~groups[3].locked
    /\ userBudget = MaxUserEvents + 1

\* openPdfInLockedGroup has been entered in this step and awaits openEditor
WatchOpenStarts == Len(pendingOpens') = Len(pendingOpens) + 1

\* the pane it opens the artifact in
WatchOpenTarget == pendingOpens'[Len(pendingOpens')]

\* C33: the pane openPdfInLockedGroup opens the artifact in is locked and
\* empty when the handler runs, hosts no terminal and is not the source
\* pane, whatever the pane list is.
WatchOpensInPlaceholder ==
    [][WatchOpenStarts =>
          /\ GroupOf(groups, WatchOpenTarget).locked
          /\ GroupOf(groups, WatchOpenTarget).editors = <<>>
          /\ ~Hosts(WatchOpenTarget, "terminal")
          /\ WatchOpenTarget # findEditorGroup(groups)]_vars

\* C33 witness: openPdfInLockedGroup awaits openEditor for the first pane,
\* which was locked and empty, while the placeholder pane on the right is
\* still locked and empty
ArtifactOpensInFirstPane ==
    /\ watching
    /\ Len(pendingOpens) = 1
    /\ Len(groups) = 3
    /\ pendingOpens[1] = groups[1].id
    /\ groups[1].id \in locksAtOpen[1].locked
    /\ groups[1].editors = <<>>
    /\ groups[3].locked
    /\ groups[3].editors = <<>>

\* the engine is as constructed: no latch set, no style injected, no
\* listener or guard registered, no call made, setupFocusedMode not entered
EngineUntouched ==
    /\ ~pdfOpened /\ ~terminalOpened /\ ~enforcementSetUp
    /\ ~styleInjected
    /\ ~watching /\ ~armedListeners
    /\ pdfGuard = None /\ termGuard = None /\ editorGuard = None
    /\ pendingFinds = 0 /\ pendingOpens = <<>> /\ termCalls = <<>>
    /\ openCalls = 0 /\ ensureCalls = 0 /\ termCreates = 0
    /\ buildTimers = 0
    /\ path = "none" /\ ~listed /\ ~laidOut
    /\ pc \in {"init", "done"}

\* C34: with the workbench state EMPTY at the restored phase the engine
\* changes nothing: it stays as constructed (no configuration written by
\* setupFocusedMode, no style, no listener) and the pane list with its items
\* and locks is never changed.
EmptyWorkbenchUntouched ==
    [][wbEmpty => (EngineUntouched /\ EngineUntouched' /\ groups' = groups)]_vars

\* C34 witness: run() has returned in a window without a folder
EmptyWorkbenchReturned ==
    /\ wbEmpty
    /\ pc = "done"

\* C35: once the events of the user and of the workbench state have
\* stopped, the dashboard is opened and closed only finitely often: from
\* some point on no reopen timer and no showDashboard call is pending.
DashboardCycleEnds == <>[](reopenTimers = 0 /\ pendingShows = 0)

\* C35 witness: in a window whose folder was closed after the engine armed
\* enforcement, the engine has closed the dashboard and the runner has
\* started the timer that reopens it
EngineClosedReopenedDashboard ==
    /\ wbEmpty
    /\ armedListeners
    /\ runnerEvent = "closedByEngine"
    /\ reopenTimers > 0
    /\ userBudget = 0

\* the dashboard item was closed, by the user or by the engine, in a
\* window without a folder whose startup editor is the dashboard
DashboardClosedWhileEmpty ==
    /\ runnerEvent \in {"closed", "closedByEngine"}
    /\ wbEmpty
    /\ startupEditor(wbEmpty) = DashboardStartup

\* the dashboard item is open and the five parts are hidden
DashboardShown ==
    /\ DashboardPresent(groups)
    /\ hiddenParts = AllParts

====
